---- MODULE Spec2Model ----
(***************************************************************************)
(* A model of the AllLLM assistant: the per-session context buffer         *)
(* (chatbot/workflow/context_manager.py), the conversation log             *)
(* (chatbot/workflow/conversation_log.py), the failover oracle client      *)
(* (chatbot/llm.py), the input pipeline                                    *)
(* (chatbot/workflow/input_processing.py and app.py), the knowledge        *)
(* curator (chatbot/workflow/knowledge_manager.py) and the pre-checked     *)
(* ingestion (chatbot/workflow/knowledge_update.py).                       *)
(*                                                                         *)
(* Strings whose only observed property is their length are modelled by    *)
(* that length.  Each subsystem has its own specification; the variables   *)
(* of the other subsystems stay at their initial values.                   *)
(***************************************************************************)
EXTENDS Integers, Sequences, FiniteSets, TLC

VARIABLES
    \* ---- ContextManager
    context_history,   \* conversation_id -> deque of turns (absent key: not in DOMAIN)
    nAdded,            \* number of add_to_context calls made so far
    ever_added,        \* conversation_id -> every turn passed to add_to_context, in order
    th,                \* per thread inside add_to_context: position, turn, locals
    deques,            \* deque objects created so far for the shared session
    th_base,           \* the shared session's buffer before the concurrent calls
    \* ---- conversation_log.py
    log_files,         \* date -> rows of data/log/<date>.csv, in file order
    today,             \* the date datetime.now() gives
    now,               \* the timestamp datetime.now().isoformat() gives
    loaded,            \* the latest load_recent_conversations call and its result
    \* ---- llm.py
    api_key_index,     \* _api_key_index, the shared cursor
    clients,           \* len(_clients): clients whose construction succeeded
    nkeys,             \* len(config.DASHSCOPE_API_KEYS)
    pc,                \* per call: position inside invoke
    attempt,           \* per call: the loop variable of invoke
    client,            \* per call: index returned by _get_current_client
    rot,               \* per call: value of _api_key_index loaded by _rotate_api_key
    tried,             \* per call: the attempts made, <<[cred, prompt], ...>>
    user_message,      \* per call: the prompt argument
    result,            \* per call: "none" | "returned" | "exhausted" | "noclient"
    ncalls,            \* number of invoke calls started
    last_ok,           \* credential of the latest attempt if it succeeded, else NoCred
    \* ---- input_processing.py: one turn of process_user_input
    p_pc,              \* stage about to run
    p_input,           \* user_input
    p_budget,          \* max_context_length argument
    p_history,         \* recent_conversations
    p_summary,         \* summary
    p_context,         \* context_history built so far
    p_out,             \* what process_user_input handed to its caller
    p_failed,          \* stages in which an oracle call or a file operation failed
    p_ran,             \* stages that have run in this turn, in order
    p_need,            \* determine_context_need: oracle calls made, reply, result
    p_rewrite,         \* rewrite_user_input: the oracle's reply and the result
    \* ---- knowledge_manager.py
    store,             \* the knowledge store: path -> [content, uid]
    dirs,              \* the directories beneath the knowledge root
    det,               \* the oracle answers the same prompt the same way
    oracle,            \* replies given so far, per prompt (kept when det)
    kb_pc,             \* "idle" | "run": organize_knowledge_base in progress
    files_info,        \* files_info of the current run
    file_themes,       \* file_themes of the current run
    merged_files,      \* merged_files of the current run
    kb_g,              \* next theme group of merge_similar_files
    kb_r,              \* next document of reorganize_structure step 1
    reorganized_structure,  \* the per-path records of the current run
    kb_report,         \* the counts of the report last returned
    kb_runs,           \* runs completed
    kb_uid,            \* next fresh document uid
    ingests,           \* update_knowledge_base calls made
    direct,            \* nothing has touched the store since the last run ended
    run_direct,        \* the current run started on the output of the previous one
    pre_store,         \* the store when the current run started
    written,           \* paths written by merges of the current run and by ingestion
    run_limit,         \* organize_knowledge_base runs the behaviour may make
    faulty,            \* oracle calls and renames may fail
    \* ---- single-document categorization, called on its own
    c_calls,           \* categorization calls made
    c_theme,           \* determine_file_theme: last reply and result
    c_category,        \* determine_knowledge_category: last reply and result
    \* ---- should_merge_files, called on its own
    sm_call,           \* should_merge_files: last call's documents, replies and result
    \* ---- ingestion (knowledge_manager.py and knowledge_update.py)
    notes,             \* uids of the notes written by successful ingestions
    ku_out             \* knowledge_update.py: the last call's pre-check and result

ctxVars == <<context_history, nAdded, ever_added>>
thVars == <<th, deques, th_base>>
logVars == <<log_files, today, now, loaded>>
llmVars == <<api_key_index, clients, nkeys, pc, attempt, client, rot, tried,
             user_message, result, ncalls, last_ok>>
pipeVars == <<p_pc, p_input, p_budget, p_history, p_summary, p_context, p_out,
              p_failed, p_ran, p_need, p_rewrite>>
kbVars == <<store, dirs, det, oracle, kb_pc, files_info, file_themes, merged_files,
            kb_g, kb_r, reorganized_structure, kb_report, kb_runs, kb_uid, ingests,
            direct, run_direct, pre_store, written, run_limit, faulty>>
catVars == <<c_calls, c_theme, c_category>>
mergeVars == <<sm_call>>
kuVars == <<notes, ku_out>>
vars == <<logVars, ctxVars, thVars, llmVars, pipeVars, kbVars, catVars, mergeVars, kuVars>>
notCtx == <<logVars, thVars, llmVars, pipeVars, kbVars, catVars, mergeVars, kuVars>>
notLLM == <<logVars, ctxVars, thVars, pipeVars, kbVars, catVars, mergeVars, kuVars>>
notPipe == <<logVars, ctxVars, thVars, llmVars, kbVars, catVars, mergeVars, kuVars>>
notKB == <<logVars, ctxVars, thVars, llmVars, pipeVars, catVars, mergeVars, kuVars>>
notCat == <<logVars, ctxVars, thVars, llmVars, pipeVars, kbVars, mergeVars, kuVars>>
notMerge == <<logVars, ctxVars, thVars, llmVars, pipeVars, kbVars, catVars, kuVars>>
notTh == <<logVars, llmVars, pipeVars, kbVars, catVars, mergeVars, kuVars>>
notLog == <<ctxVars, thVars, llmVars, pipeVars, kbVars, catVars, mergeVars, kuVars>>

(***************************************************************************)
(* ContextManager                                                          *)
(***************************************************************************)
max_context_length == 4      \* self.max_context_length, scaled down
MaxTurnLen == 3              \* longest user_input / model_response
MaxAdds == 4                 \* add_to_context calls per behaviour
Sessions == {"s1", "s2"}
Turns == [user_input : 0..MaxTurnLen, model_response : {0, MaxTurnLen}]

TurnLength(item) == item.user_input + item.model_response

RECURSIVE total_length(_)
total_length(context) ==
    IF context = <<>> THEN 0
    ELSE TurnLength(Head(context)) + total_length(Tail(context))

\* a trim that pops at most one turn
RECURSIVE TrimOnce(_)
TrimOnce(context) ==
    IF total_length(context) > max_context_length /\ Len(context) > 1
    THEN Tail(context)
    ELSE context

\* a trim that also pops when the total equals the budget
RECURSIVE TrimEager(_)
TrimEager(context) ==
    IF total_length(context) >= max_context_length /\ Len(context) > 1
    THEN TrimEager(Tail(context))
    ELSE context

RECURSIVE trim_context(_)
trim_context(context) ==
    IF total_length(context) > max_context_length /\ Len(context) > 1
    THEN trim_context(Tail(context))
    ELSE context

get_context(conversation_id) ==
    IF conversation_id \in DOMAIN context_history
    THEN context_history[conversation_id]
    ELSE <<>>

add_to_context(conversation_id, user_input, model_response) ==
    /\ nAdded < MaxAdds
    /\ LET old == get_context(conversation_id)
           new == Append(old, [user_input |-> user_input,
                               model_response |-> model_response])
       IN context_history' =
            [c \in DOMAIN context_history \cup {conversation_id} |->
                IF c = conversation_id THEN trim_context(new)
                ELSE context_history[c]]
    /\ ever_added' =
          [c \in DOMAIN ever_added \cup {conversation_id} |->
              IF c = conversation_id
              THEN Append(IF c \in DOMAIN ever_added THEN ever_added[c] ELSE <<>>,
                          [user_input |-> user_input,
                           model_response |-> model_response])
              ELSE ever_added[c]]
    /\ nAdded' = nAdded + 1
    /\ UNCHANGED notCtx

CtxInit ==
    /\ context_history = << >>
    /\ nAdded = 0
    /\ ever_added = << >>

(***************************************************************************)
(* Two threads inside add_to_context of one session.  The method takes no  *)
(* lock, so the interpreter may switch threads between any two of its      *)
(* statements: the membership test (line 30), the assignment of a fresh    *)
(* deque (31), the append (34), the lookup of the deque and the start of   *)
(* the sum (61-62), the end of the sum (65), the test of the while loop    *)
(* (68) and the popleft (69-70).  The iterator of a deque raises           *)
(* RuntimeError when the deque was mutated since the iterator was made.    *)
(***************************************************************************)
Threads == {1, 2}
Shared == "s1"
ConcTurns == {t \in Turns : t.user_input >= 1 /\ t.model_response = 0}

\* buffers add_to_context can have left behind
Bases ==
    {<<>>} \cup {trim_context(<<a>>) : a \in ConcTurns}
           \cup {trim_context(<<a, b>>) : a \in ConcTurns, b \in ConcTurns}

ThIdle ==
    /\ th = [t \in Threads |-> [pc |-> "idle", turn |-> 0, total |-> 0, ref |-> 0]]
    /\ deques = 0
    /\ th_base = <<>>

ThInit ==
    /\ th_base \in Bases
    /\ \E present \in BOOLEAN :
          /\ (th_base # <<>>) => present
          /\ context_history = IF present THEN [c \in {Shared} |-> th_base] ELSE << >>
          /\ deques = IF present THEN 1 ELSE 0
    /\ nAdded = 0
    /\ ever_added = << >>
    /\ th \in [Threads -> [pc : {"start"}, turn : ConcTurns, total : {0}, ref : {0}]]

\* a mutation of the shared deque invalidates the iterators that are open on it
Mutated(t) ==
    [u \in Threads |->
        IF u # t /\ th[u].pc = "summing" /\ th[u].ref = deques
        THEN [th[u] EXCEPT !.pc = "mutated"]
        ELSE th[u]]

\* line 30: if conversation_id not in self.context_history
th_membership(t) ==
    /\ th[t].pc = "start"
    /\ th' = [th EXCEPT ![t].pc = IF Shared \in DOMAIN context_history
                                  THEN "append" ELSE "create"]
    /\ UNCHANGED <<context_history, nAdded, ever_added, deques, th_base, notTh>>

\* line 31: self.context_history[conversation_id] = deque()
th_create(t) ==
    /\ th[t].pc = "create"
    /\ context_history' = [c \in {Shared} |-> <<>>]
    /\ deques' = deques + 1
    /\ th' = [th EXCEPT ![t].pc = "append"]
    /\ UNCHANGED <<nAdded, ever_added, th_base, notTh>>

\* lines 34-37: the append on the deque the dictionary holds now
th_append(t) ==
    /\ th[t].pc = "append"
    /\ context_history' =
          [context_history EXCEPT ![Shared] =
              Append(@, [user_input |-> th[t].turn.user_input,
                         model_response |-> th[t].turn.model_response])]
    /\ th' = [Mutated(t) EXCEPT ![t].pc = "lookup"]
    /\ UNCHANGED <<nAdded, ever_added, deques, th_base, notTh>>

\* lines 61-62: context = self.context_history[conversation_id]; iter(context)
th_lookup(t) ==
    /\ th[t].pc = "lookup"
    /\ th' = [th EXCEPT ![t].pc = "summing", ![t].ref = deques]
    /\ UNCHANGED <<context_history, nAdded, ever_added, deques, th_base, notTh>>

\* lines 62-65: the sum ends, or its iterator finds the deque mutated.  A
\* thread whose deque was replaced in the dictionary trims a deque nobody
\* else holds.
th_sum(t) ==
    /\ th[t].pc \in {"summing", "mutated"}
    /\ th' = [th EXCEPT
                ![t].pc = IF th[t].pc = "mutated" THEN "raised"
                          ELSE IF th[t].ref # deques THEN "done"
                          ELSE "test",
                ![t].total = IF th[t].pc = "summing" /\ th[t].ref = deques
                             THEN total_length(context_history[Shared]) ELSE 0]
    /\ UNCHANGED <<context_history, nAdded, ever_added, deques, th_base, notTh>>

\* line 68: while total_length > self.max_context_length and len(context) > 1
th_test(t) ==
    /\ th[t].pc = "test"
    /\ th' = [th EXCEPT
                ![t].pc = IF th[t].ref # deques THEN "done"
                          ELSE IF /\ th[t].total > max_context_length
                                  /\ Len(context_history[Shared]) > 1
                               THEN "pop" ELSE "done"]
    /\ UNCHANGED <<context_history, nAdded, ever_added, deques, th_base, notTh>>

\* lines 69-70: removed_item = context.popleft(); total_length -= ...
th_popleft(t) ==
    /\ th[t].pc = "pop"
    /\ IF th[t].ref # deques
       THEN /\ th' = [th EXCEPT ![t].pc = "done"]
            /\ UNCHANGED context_history
       ELSE IF context_history[Shared] = <<>>
       THEN /\ th' = [th EXCEPT ![t].pc = "raised"]
            /\ UNCHANGED context_history
       ELSE /\ context_history' = [context_history EXCEPT ![Shared] = Tail(@)]
            /\ th' = [Mutated(t) EXCEPT
                        ![t].pc = "test",
                        ![t].total = @ - TurnLength(Head(context_history[Shared]))]
    /\ UNCHANGED <<nAdded, ever_added, deques, th_base, notTh>>

(***************************************************************************)
(* conversation_log.py: one CSV file per day under data/log.  A row is     *)
(* modelled by its timestamp and conversation_id; timestamps are the       *)
(* values of a clock that advances with every save.                        *)
(***************************************************************************)
MaxSaves == 4                \* save_conversation_log calls per behaviour
MaxDays == 2                 \* dates the behaviour spans
MaxEntries == 2              \* largest max_entries argument (the default is 10)
NotLoaded == [conversation_id |-> "", max_entries |-> 0, all_read |-> FALSE,
              conversations |-> <<>>]

LogIdle ==
    /\ log_files = << >>
    /\ today = 1
    /\ now = 1
    /\ loaded = NotLoaded

\* lines 17-43; a failure inside the try block is swallowed and saves nothing
save_conversation_log(conversation_id, ok) ==
    /\ now <= MaxSaves
    /\ LET row == [timestamp |-> now, conversation_id |-> conversation_id]
           old == IF today \in DOMAIN log_files THEN log_files[today] ELSE <<>>
       IN log_files' =
            IF ok
            THEN [d \in DOMAIN log_files \cup {today} |->
                    IF d = today THEN Append(old, row) ELSE log_files[d]]
            ELSE log_files
    /\ now' = now + 1
    /\ loaded' = NotLoaded
    /\ UNCHANGED <<today, notLog>>

\* midnight passes
NextDay ==
    /\ today < MaxDays
    /\ today' = today + 1
    /\ UNCHANGED <<log_files, now, loaded, notLog>>

\* sorted(conversations, key=lambda x: x['timestamp']): a stable sort
RECURSIVE InsertByTimestamp(_, _)
InsertByTimestamp(sorted, row) ==
    IF sorted = <<>> THEN <<row>>
    ELSE IF Head(sorted).timestamp <= row.timestamp
         THEN <<Head(sorted)>> \o InsertByTimestamp(Tail(sorted), row)
         ELSE <<row>> \o sorted

RECURSIVE SortedByTimestamp(_)
SortedByTimestamp(conversations) ==
    IF conversations = <<>> THEN <<>>
    ELSE InsertByTimestamp(SortedByTimestamp(SubSeq(conversations, 1,
                                                    Len(conversations) - 1)),
                           conversations[Len(conversations)])

\* lines 75-84: the rows of one file from row i on; stops when max_entries is reached
RECURSIVE ReadRows(_, _, _, _, _)
ReadRows(rows, i, conversations, conversation_id, max_entries) ==
    IF i > Len(rows) THEN [conversations |-> conversations, full |-> FALSE]
    ELSE IF rows[i].conversation_id = conversation_id
         THEN LET more == Append(conversations, rows[i])
              IN IF Len(more) >= max_entries
                 THEN [conversations |-> more, full |-> TRUE]
                 ELSE ReadRows(rows, i + 1, more, conversation_id, max_entries)
         ELSE ReadRows(rows, i + 1, conversations, conversation_id, max_entries)

\* lines 65-90: the files from date d downwards (sorted(..., reverse=True))
RECURSIVE ReadFiles(_, _, _, _, _, _)
ReadFiles(files, d, conversations, conversation_id, max_entries, readable) ==
    IF d < 1 THEN conversations
    ELSE IF d \notin DOMAIN files \/ d \notin readable
         THEN ReadFiles(files, d - 1, conversations, conversation_id, max_entries,
                        readable)
         ELSE LET r == ReadRows(files[d], 1, conversations, conversation_id,
                                max_entries)
              IN IF r.full THEN r.conversations
                 ELSE ReadFiles(files, d - 1, r.conversations, conversation_id,
                                max_entries, readable)

load_recent_conversations(conversation_id, max_entries, readable) ==
    SortedByTimestamp(ReadFiles(log_files, MaxDays, <<>>, conversation_id,
                                max_entries, readable))

CallLoadRecentConversations ==
    \E conversation_id \in Sessions, max_entries \in 1..MaxEntries,
       readable \in SUBSET (1..MaxDays) :
        /\ loaded' = [conversation_id |-> conversation_id,
                      max_entries |-> max_entries,
                      all_read |-> DOMAIN log_files \subseteq readable,
                      conversations |->
                          load_recent_conversations(conversation_id, max_entries,
                                                    readable)]
        /\ UNCHANGED <<log_files, today, now, notLog>>

(***************************************************************************)
(* llm.py: invoke with credential rotation                                 *)
(***************************************************************************)
MaxKeys == 3                 \* largest credential list explored
MaxCalls == 3                \* invoke calls per behaviour
Calls == {1, 2}              \* concurrent callers of invoke
Prompts == {"p", "q"}
NoCred == 0 - 1

LLMIdle ==
    /\ api_key_index = 0
    /\ pc = [t \in Calls |-> "idle"]
    /\ attempt = [t \in Calls |-> 0]
    /\ client = [t \in Calls |-> 0]
    /\ rot = [t \in Calls |-> 0]
    /\ tried = [t \in Calls |-> <<>>]
    /\ user_message = [t \in Calls |-> "p"]
    /\ result = [t \in Calls |-> "none"]
    /\ ncalls = 0
    /\ last_ok = NoCred

\* _initialize_clients: a client whose construction raises is left out of _clients
initialize_clients ==
    /\ nkeys \in 1..MaxKeys
    /\ clients \in 0..nkeys

\* entry of invoke; StartSeq is a caller that waits for the previous call to end
Enter(t, msg) ==
    /\ pc[t] = "idle"
    /\ ncalls < MaxCalls
    /\ ncalls' = ncalls + 1
    /\ user_message' = [user_message EXCEPT ![t] = msg]
    /\ attempt' = [attempt EXCEPT ![t] = 0]
    /\ tried' = [tried EXCEPT ![t] = <<>>]
    /\ result' = [result EXCEPT ![t] = "none"]
    /\ pc' = [pc EXCEPT ![t] = "get"]
    /\ UNCHANGED <<api_key_index, clients, nkeys, client, rot, last_ok, notLLM>>

StartSeq(t) ==
    /\ \A u \in Calls : pc[u] = "idle"
    /\ \E msg \in Prompts : Enter(t, msg)

StartConc(t) == \E msg \in Prompts : Enter(t, msg)

max_retries == nkeys

\* what the except clause of invoke does after a failed attempt
AfterFailure(t) ==
    IF attempt[t] = max_retries - 1
    THEN /\ pc' = [pc EXCEPT ![t] = "done"]
         /\ result' = [result EXCEPT ![t] = "exhausted"]
    ELSE /\ pc' = [pc EXCEPT ![t] = "rotate"]
         /\ UNCHANGED result

\* _get_current_client (raises inside the try when _clients is empty)
get_current_client(t) ==
    /\ pc[t] = "get"
    /\ IF clients = 0
       THEN /\ AfterFailure(t)
            /\ last_ok' = NoCred
            /\ UNCHANGED client
       ELSE /\ client' = [client EXCEPT ![t] = api_key_index]
            /\ pc' = [pc EXCEPT ![t] = "call"]
            /\ UNCHANGED <<result, last_ok>>
    /\ UNCHANGED <<api_key_index, clients, nkeys, attempt, rot, tried,
                   user_message, ncalls, notLLM>>

\* an attempt that moves the cursor on after a success as well (round robin)
CreateCompletionAdvancing(t) ==
    /\ pc[t] = "call"
    /\ tried' = [tried EXCEPT ![t] =
                    Append(@, [cred |-> client[t], prompt |-> user_message[t]])]
    /\ \E ok \in BOOLEAN :
         IF ok
         THEN /\ pc' = [pc EXCEPT ![t] = "done"]
              /\ result' = [result EXCEPT ![t] = "returned"]
              /\ last_ok' = client[t]
              /\ api_key_index' = (client[t] + 1) % clients
         ELSE /\ AfterFailure(t)
              /\ last_ok' = NoCred
              /\ UNCHANGED api_key_index
    /\ UNCHANGED <<clients, nkeys, attempt, client, rot,
                   user_message, ncalls, notLLM>>

\* client.chat.completions.create(...) and reading the reply: succeeds or raises
create_completion(t) ==
    /\ pc[t] = "call"
    /\ tried' = [tried EXCEPT ![t] =
                    Append(@, [cred |-> client[t], prompt |-> user_message[t]])]
    /\ \E ok \in BOOLEAN :
         IF ok
         THEN /\ pc' = [pc EXCEPT ![t] = "done"]
              /\ result' = [result EXCEPT ![t] = "returned"]
              /\ last_ok' = client[t]
         ELSE /\ AfterFailure(t)
              /\ last_ok' = NoCred
    /\ UNCHANGED <<api_key_index, clients, nkeys, attempt, client, rot,
                   user_message, ncalls, notLLM>>

\* _rotate_api_key, first half: the guard and the load of _api_key_index
rotate_load(t) ==
    /\ pc[t] = "rotate"
    /\ IF clients = 0
       THEN /\ pc' = [pc EXCEPT ![t] = "done"]
            /\ result' = [result EXCEPT ![t] = "noclient"]
            /\ UNCHANGED rot
       ELSE /\ rot' = [rot EXCEPT ![t] = api_key_index]
            /\ pc' = [pc EXCEPT ![t] = "store"]
            /\ UNCHANGED result
    /\ UNCHANGED <<api_key_index, clients, nkeys, attempt, client, tried,
                   user_message, ncalls, last_ok, notLLM>>

\* the value _rotate_api_key stores
Rotated(index) == (index + 1) % clients

\* _rotate_api_key, second half: the store; then the next loop iteration
rotate_store(t) ==
    /\ pc[t] = "store"
    /\ api_key_index' = Rotated(rot[t])
    /\ attempt' = [attempt EXCEPT ![t] = @ + 1]
    /\ pc' = [pc EXCEPT ![t] = "get"]
    /\ UNCHANGED <<clients, nkeys, client, rot, tried, user_message, result,
                   ncalls, last_ok, notLLM>>

\* the caller has taken the result
Return(t) ==
    /\ pc[t] = "done"
    /\ pc' = [pc EXCEPT ![t] = "idle"]
    /\ UNCHANGED <<api_key_index, clients, nkeys, attempt, client, rot, tried,
                   user_message, result, ncalls, last_ok, notLLM>>

(***************************************************************************)
(* input_processing.py: process_user_input, one stage per step             *)
(*                                                                         *)
(* A reply of the oracle is a text, NoneReply (invoke returned None) or    *)
(* Raised (invoke raised: all credentials failed).                         *)
(***************************************************************************)
NoneReply == "<None>"
Raised == "<raised>"
NoneField == "<None>"        \* a field that csv.DictReader filled with None

UserInputs == {"q", " Q ", "r"}
Responses == {"a"}
Budgets == {0, 12, 30}       \* max_context_length arguments explored
MaxHistory == 2              \* longest history load_recent_conversations returns here

\* len(s)
StrLen(s) ==
    CASE s = "q" -> 1
      [] s = " Q " -> 3
      [] s = "r" -> 1
      [] s = "a" -> 1
      [] OTHER -> 4          \* str(None)

\* s.strip().lower()
StripLower(s) ==
    CASE s = " Q " -> "q"
      [] s = " YES " -> "yes"
      [] OTHER -> s

HistoryEntries ==
    [user_input : UserInputs, model_response : Responses]
        \cup {[user_input |-> NoneField, model_response |-> NoneField]}

Histories ==
    UNION {[1..n -> HistoryEntries] : n \in 0..MaxHistory}

ErrorMessage == "sorry, an error occurred while processing your input"

FallbackClarification == "{intents: [technical question, how-to], need_more_info}"

NotAsked == [calls |-> 0, reply |-> "", need |-> FALSE]

NotRewritten ==
    [reply |-> "", kind |-> "none", rewritten_input |-> "", changes |-> <<>>,
     reasoning |-> ""]

PipeIdle ==
    /\ p_pc = "idle"
    /\ p_input = "q"
    /\ p_budget = 0
    /\ p_history = <<>>
    /\ p_summary = ""
    /\ p_context = <<>>
    /\ p_out = [kind |-> "none", value |-> "", context |-> <<>>]
    /\ p_failed = {}
    /\ p_ran = <<>>
    /\ p_need = NotAsked
    /\ p_rewrite = NotRewritten

\* entry of process_user_input
process_user_input(user_input, max_length) ==
    /\ p_pc = "idle"
    /\ p_out.kind = "none"
    /\ p_input' = user_input
    /\ p_budget' = max_length
    /\ p_pc' = "clarity"
    /\ UNCHANGED <<p_history, p_summary, p_context, p_out, p_failed, p_ran, p_need, p_rewrite, notPipe>>

\* a clarity check that takes a failed call for an unclear input
ClarityStrict(reply) ==
    reply \notin {Raised, NoneReply} /\ StripLower(reply) = "clear"

\* assess_input_clarity: the value returned for a reply
assess_input_clarity(reply) ==
    IF reply \in {Raised, NoneReply} THEN TRUE
    ELSE StripLower(reply) = "clear"

ClarityReplies == {"clear", "unclear", "maybe", NoneReply, Raised}

AssessClarity ==
    /\ p_pc = "clarity"
    /\ \E reply \in ClarityReplies :
         /\ p_pc' = IF assess_input_clarity(reply) THEN "load" ELSE "clarify"
         /\ p_failed' = IF reply \in {Raised, NoneReply}
                        THEN p_failed \cup {"clarity"} ELSE p_failed
    /\ p_ran' = Append(p_ran, "clarity")
    /\ UNCHANGED <<p_input, p_budget, p_history, p_summary, p_context, p_out, p_need, p_rewrite, notPipe>>

\* clarify_user_intent: json.loads(response), the fallback on any exception
ClarifyReplies ==
    {"{intents, need_more_info}", "{title}", "[1]", "not json", NoneReply, Raised}

\* read_file of a prompt template: the text of the file, "" when the file
\* is missing, or an exception
Templates == {"file", "empty", "raised"}

\* The built-in template of clarify_user_intent (lines 87-119) shows the JSON
\* format with bare braces, so prompt_template.format raises KeyError whenever
\* it is used; json.loads(None) raises TypeError.  Both reach the outer handler.
clarify_user_intent(template, reply) ==
    IF template \in {"empty", "raised"} THEN FallbackClarification
    ELSE IF reply \in {"not json", NoneReply, Raised} THEN FallbackClarification
    ELSE reply

\* a turn whose exception reaches the caller
Unhandled(raised, value, context) ==
    IF raised
    THEN [kind |-> "raised", value |-> "", context |-> <<>>]
    ELSE [kind |-> "returned", value |-> value, context |-> context]

\* the try/except of process_user_input around the stages
process_user_input_except(raised, value, context) ==
    IF raised
    THEN [kind |-> "error", value |-> ErrorMessage, context |-> <<>>]
    ELSE [kind |-> "returned", value |-> value, context |-> context]

ClarifyIntent ==
    /\ p_pc = "clarify"
    /\ \E template \in Templates, reply \in ClarifyReplies :
         /\ p_out' = [kind |-> "clarification",
                       value |-> clarify_user_intent(template, reply),
                       context |-> <<>>]
         /\ p_failed' = IF template # "file" \/ reply \in {"not json", NoneReply, Raised}
                        THEN p_failed \cup {"clarify"} ELSE p_failed
    /\ p_pc' = "done"
    /\ p_ran' = Append(p_ran, "clarify")
    /\ UNCHANGED <<p_input, p_budget, p_history, p_summary, p_context, p_need, p_rewrite, notPipe>>

\* load_recent_conversations: the logged turns, or [] when the log cannot be read
LoadRecent ==
    /\ p_pc = "load"
    /\ \E readable \in BOOLEAN, h \in Histories :
         /\ p_history' = IF readable THEN h ELSE <<>>
         /\ readable \/ h = <<>>
         /\ p_failed' = IF readable THEN p_failed ELSE p_failed \cup {"load"}
    /\ p_pc' = "summarize"
    /\ p_ran' = Append(p_ran, "load")
    /\ UNCHANGED <<p_input, p_budget, p_summary, p_context, p_out, p_need, p_rewrite, notPipe>>

\* summarize_conversation_history
summarize_conversation_history(conversations, reply) ==
    IF conversations = <<>> THEN "this is a new conversation"
    ELSE IF reply = Raised THEN "conversation history summary"
    ELSE reply

SummaryReplies == {"summary", NoneReply, Raised}

Summarize ==
    /\ p_pc = "summarize"
    /\ \E reply \in SummaryReplies :
         /\ p_history = <<>> => reply = "summary"
         /\ p_summary' = summarize_conversation_history(p_history, reply)
         /\ p_failed' = IF p_history # <<>> /\ reply = Raised
                        THEN p_failed \cup {"summarize"} ELSE p_failed
    /\ p_pc' = "need"
    /\ p_ran' = Append(p_ran, "summarize")
    /\ UNCHANGED <<p_input, p_budget, p_history, p_context, p_out, p_need, p_rewrite, notPipe>>

\* a context-need decision left to the oracle alone
ContextNeedFromOracle(user_input, recent_conversations, reply) ==
    IF reply \in {Raised, NoneReply} THEN TRUE
    ELSE StripLower(reply) = "yes"

\* a decision that takes a failed call on an empty history for "no"
ContextNeedFailClosed(user_input, recent_conversations, reply) ==
    IF recent_conversations # <<>> THEN TRUE
    ELSE reply \notin {Raised, NoneReply} /\ StripLower(reply) = "yes"

\* determine_context_need; `reply` is what the oracle would answer if asked
determine_context_need(user_input, recent_conversations, reply) ==
    IF /\ recent_conversations # <<>>
       /\ recent_conversations[Len(recent_conversations)].user_input # NoneField
       /\ StripLower(user_input) =
            StripLower(recent_conversations[Len(recent_conversations)].user_input)
    THEN TRUE
    ELSE IF recent_conversations # <<>> THEN TRUE
    ELSE IF reply = Raised THEN TRUE
    ELSE IF reply = NoneReply THEN TRUE
    ELSE StripLower(reply) = "yes"

NeedReplies == {"yes", " YES ", "no", NoneReply, Raised}

\* the number of invoke calls determine_context_need makes
context_need_calls(user_input, recent_conversations) ==
    IF recent_conversations # <<>> THEN 0 ELSE 1

\* len of f"<2 chars>: {user_input}\n<2 chars>: {model_response}"
ConvTextLen(conv) == 4 + StrLen(conv.user_input) + 5 + StrLen(conv.model_response)

\* truncate_conversations: the turns kept, newest first while the budget allows
RECURSIVE TruncateFrom(_, _, _)
TruncateFrom(conversations, current_length, max_length) ==
    IF conversations = <<>> THEN <<>>
    ELSE LET n == Len(conversations)
             conv == conversations[n]
         IN IF current_length + ConvTextLen(conv) > max_length
            THEN <<>>
            ELSE Append(TruncateFrom(SubSeq(conversations, 1, n - 1),
                                     current_length + ConvTextLen(conv), max_length),
                        conv)

RECURSIVE ToMessages(_)
ToMessages(truncated) ==
    IF truncated = <<>> THEN <<>>
    ELSE <<[role |-> "user", content |-> Head(truncated).user_input],
           [role |-> "assistant", content |-> Head(truncated).model_response]>>
         \o ToMessages(Tail(truncated))

\* a truncation that passes over a turn that does not fit and goes on
RECURSIVE SkipFrom(_, _, _)
SkipFrom(conversations, current_length, max_length) ==
    IF conversations = <<>> THEN <<>>
    ELSE LET n == Len(conversations)
             conv == conversations[n]
             older == SubSeq(conversations, 1, n - 1)
         IN IF current_length + ConvTextLen(conv) > max_length
            THEN SkipFrom(older, current_length, max_length)
            ELSE Append(SkipFrom(older, current_length + ConvTextLen(conv),
                                 max_length),
                        conv)

TruncateSkipping(conversations, max_length) ==
    ToMessages(SkipFrom(conversations, 0, max_length))

truncate_conversations(conversations, max_length) ==
    ToMessages(TruncateFrom(conversations, 0, max_length))

\* stages 4 and 5 of process_user_input
BuildContext ==
    /\ p_pc = "need"
    /\ \E reply \in NeedReplies :
         /\ p_context' =
              IF determine_context_need(p_input, p_history, reply)
              THEN truncate_conversations(p_history, p_budget)
              ELSE <<[role |-> "system", content |-> p_summary]>>
         /\ p_failed' = IF p_history = <<>> /\ reply \in {Raised, NoneReply}
                        THEN p_failed \cup {"need"} ELSE p_failed
         /\ p_need' =
              [calls |-> context_need_calls(p_input, p_history),
               reply |-> IF context_need_calls(p_input, p_history) = 0 THEN ""
                         ELSE reply,
               need |-> determine_context_need(p_input, p_history, reply)]
    /\ p_pc' = "preference"
    /\ p_ran' = p_ran \o <<"need", "context">>
    /\ UNCHANGED <<p_input, p_budget, p_history, p_summary, p_out, p_rewrite, notPipe>>

\* analyze_user_preference: TRUE when it raises (it has no handler of its own)
PreferenceReplies == {"{intent: ...}", "[1]", "not json", NoneReply, Raised}

analyze_user_preference_raises(file_ok, reply) ==
    \/ ~file_ok                          \* open(..., 'w') or open(..., 'a') fails
    \/ reply = Raised                    \* invoke raised
    \/ reply = NoneReply                 \* json.loads(None): TypeError
    \/ reply = "[1]"                     \* list has no .get: AttributeError

AnalyzePreference ==
    /\ p_pc = "preference"
    /\ \E file_ok \in BOOLEAN, reply \in PreferenceReplies :
         LET raises == analyze_user_preference_raises(file_ok, reply)
         IN /\ p_out' = process_user_input_except(raises, p_input, p_context)
            /\ p_failed' = IF raises THEN p_failed \cup {"preference"} ELSE p_failed
    /\ p_pc' = "done"
    /\ p_ran' = Append(p_ran, "preference")
    /\ UNCHANGED <<p_input, p_budget, p_history, p_summary, p_context, p_need, p_rewrite, notPipe>>

(***************************************************************************)
(* app.py: what generate_response_stream does with the pipeline's result   *)
(***************************************************************************)
\* json.loads(processed_input) as the caller inspects it
JsonKind(text) ==
    CASE text \in {FallbackClarification, "{intents, need_more_info}"} -> "intents"
      [] text = "{title}" -> "dict"
      [] text = "[1]" -> "list"
      [] OTHER -> "invalid"              \* json.JSONDecodeError

\* isinstance(intent_clarification, dict) and 'intents' (or 'error') in it
is_intent_clarification(processed_input) == JsonKind(processed_input) = "intents"

\* rewrite_user_input: the default structure its failure branches return
DefaultRewrite(user_input, reasoning) ==
    [kind |-> "returned", rewritten_input |-> user_input, changes |-> <<>>,
     reasoning |-> reasoning]

RewriteReplies ==
    {"{rewritten_input: rw, changes: [c]}", "{title}", "[1]", "not json",
     NoneReply, Raised}

\* a rewrite without the outermost try/except
RewriteUnguarded(user_input, template, reply) ==
    IF template = "raised" \/ reply = Raised
    THEN [kind |-> "raised", rewritten_input |-> "", changes |-> <<>>,
          reasoning |-> ""]
    ELSE IF reply = NoneReply THEN DefaultRewrite(user_input, "empty response")
    ELSE IF reply = "not json" THEN DefaultRewrite(user_input, "cannot rewrite")
    ELSE IF reply # "{rewritten_input: rw, changes: [c]}"
    THEN DefaultRewrite(user_input, "malformed response")
    ELSE [kind |-> "returned", rewritten_input |-> "rw", changes |-> <<"c">>,
          reasoning |-> "from the reply"]

\* rewrite_user_input
rewrite_user_input(user_input, template, reply) ==
    IF template = "raised" \/ reply = Raised
    THEN DefaultRewrite(user_input, "error while rewriting")
    ELSE IF reply = NoneReply THEN DefaultRewrite(user_input, "empty response")
    ELSE IF reply = "not json" THEN DefaultRewrite(user_input, "cannot rewrite")
    ELSE IF reply # "{rewritten_input: rw, changes: [c]}"
    THEN DefaultRewrite(user_input, "malformed response")
    ELSE [kind |-> "returned", rewritten_input |-> "rw", changes |-> <<"c">>,
          reasoning |-> "from the reply"]

\* the rest of generate_response_stream once process_user_input has returned:
\* the clarification event ends the turn; otherwise the input is rewritten,
\* the answer is generated and, when enabled, the turn is ingested
generate_response_stream ==
    /\ p_pc = "done"
    /\ p_pc' = "ended"
    /\ IF is_intent_clarification(p_out.value)
       THEN /\ p_ran' = Append(p_ran, "intent_clarification")
            /\ UNCHANGED p_rewrite
       ELSE \E template \in Templates, reply \in RewriteReplies,
               answered \in BOOLEAN, enable_knowledge_update \in BOOLEAN :
              /\ p_rewrite' =
                    [reply |-> IF template = "raised" THEN "" ELSE reply]
                      @@ rewrite_user_input(p_input, template, reply)
              /\ p_ran' = p_ran \o <<"rewrite">>
                        \o (IF answered THEN <<"answer">> ELSE <<>>)
                        \o (IF answered /\ enable_knowledge_update
                            THEN <<"ingest">> ELSE <<>>)
    /\ UNCHANGED <<p_input, p_budget, p_history, p_summary, p_context, p_out,
                   p_failed, p_need, notPipe>>

(***************************************************************************)
(* knowledge_manager.py: the knowledge store and its curation              *)
(*                                                                         *)
(* A file name is a sequence of tokens: "." is a dot of the name, and two   *)
(* neighbouring tokens that are not dots are joined by '_', so that        *)
(* <<"v1", ".", "2", ".", "txt">> is "v1.2.txt" and                        *)
(* <<"alpha", "1", ".", "txt">> is "alpha_1.txt".  A path is a directory   *)
(* (the sequence of its segments beneath the knowledge root) and a name.   *)
(* A document's                                                            *)
(* content is a record: id (the text), size (len), ph (contains one of the *)
(* placeholder phrases) and prefix (the class of its first 1000            *)
(* characters, which is what hash(content[:1000]) sees).  Each file also   *)
(* carries a uid naming the document it holds.                             *)
(***************************************************************************)
MaxDocs == 2                 \* documents in the initial store
TwiceDocs == 2               \* documents in the initial store of SpecKBTwice
MaxIngest == 2               \* ingestion calls per behaviour
LongDocs == 3                \* documents in the initial store of SpecKBLong
IngestDocs == 1              \* documents in the initial store of SpecKBIngest

MinValidSize == 50           \* identify_problematic_files: size < 50 is invalid
HashPrefixLen == 1000        \* identify_problematic_files: hash(content[:1000])
SeparatorLen == 7            \* len("\n\n---\n\n") in merge_file_contents

FallbackTheme == <<"other", "unclassified">>

K1 == [id |-> <<"k1">>, size |-> 60, ph |-> FALSE, prefix |-> <<"k1">>]
K2 == [id |-> <<"k2">>, size |-> 60, ph |-> FALSE, prefix |-> <<"k2">>]
Tiny == [id |-> <<"tiny">>, size |-> 10, ph |-> FALSE, prefix |-> <<"tiny">>]
EmptyContent == [id |-> <<>>, size |-> 0, ph |-> FALSE, prefix |-> <<>>]
MergedText == [id |-> <<"m">>, size |-> 60, ph |-> FALSE, prefix |-> <<"m">>]
NoteText == [id |-> <<"note">>, size |-> 60, ph |-> FALSE, prefix |-> <<"note">>]
\* the nine-character default document, which holds a placeholder phrase
DefaultDoc == [id |-> <<"default">>, size |-> 9, ph |-> TRUE, prefix |-> <<"default">>]

\* two documents longer than HashPrefixLen that agree on their first
\* HashPrefixLen characters and differ after them
L1 == [id |-> <<"long", "a">>, size |-> 1200, ph |-> FALSE, prefix |-> <<"long">>]
L2 == [id |-> <<"long", "b">>, size |-> 1200, ph |-> FALSE, prefix |-> <<"long">>]

InitContents == {K1, K2, Tiny}

Txt == <<".", "txt">>

InitPathSeq ==
    << [dir |-> <<>>, name |-> <<"alpha">> \o Txt],
       [dir |-> <<"tech", "ml">>, name |-> <<"alpha">> \o Txt],
       [dir |-> <<"tech", "ml">>, name |-> <<"v1", ".", "2">> \o Txt] >>

\* str(k) for the counters of the unique-name loop
NumStr(k) ==
    CASE k = 1 -> "1" [] k = 2 -> "2" [] k = 3 -> "3" [] k = 4 -> "4"
      [] k = 5 -> "5" [] k = 6 -> "6" [] k = 7 -> "7" [] k = 8 -> "8"
      [] OTHER -> "9"

Range(f) == {f[x] : x \in DOMAIN f}

\* the positions of the dots of a name
Dots(name) == {i \in 1..Len(name) : name[i] = "."}

Min(S) == CHOOSE x \in S : \A y \in S : x <= y
Max(S) == CHOOSE x \in S : \A y \in S : x >= y

\* rglob("*.txt")
IsTxt(name) == Len(name) >= 2 /\ SubSeq(name, Len(name) - 1, Len(name)) = Txt

\* Path.stem: the name without its last suffix
Stem(name) ==
    IF Dots(name) \ {1} = {} THEN name ELSE SubSeq(name, 1, Max(Dots(name)) - 1)

\* name.split('.')[0] and name.split('.')[1]
DotPart0(name) ==
    IF Dots(name) = {} THEN name ELSE SubSeq(name, 1, Min(Dots(name)) - 1)
DotPart1(name) ==
    LET first == Min(Dots(name))
        rest == SubSeq(name, first + 1, Len(name))
    IN DotPart0(rest)

\* stem.split('_'): the positions where two tokens are joined by '_'
Underscores(stem) ==
    {i \in 1..(Len(stem) - 1) : stem[i] # "." /\ stem[i + 1] # "."}

\* all orders in which a directory walk can list the set S
Orders(S) ==
    {f \in [1..Cardinality(S) -> S] : \A i, j \in DOMAIN f : f[i] = f[j] => i = j}

Prefixes(d) == {SubSeq(d, 1, n) : n \in 1..Len(d)}

\* ensure_directory_exists: mkdir(parents=True, exist_ok=True)
ensure_directory_exists(ds, d) == ds \cup Prefixes(d)

FileExists(st, path) == path \in DOMAIN st

\* the store with `path` holding `file`
Put(st, path, file) ==
    [q \in DOMAIN st \cup {path} |-> IF q = path THEN file ELSE st[q]]

\* the store without `path`
Unlink(st, path) == [q \in DOMAIN st \ {path} |-> st[q]]

(***************************************************************************)
(* Oracle replies.  A reply is [kind, ...]: kind "text" carries the reply, *)
(* "none" is invoke returning None, "raised" is invoke raising.            *)
(***************************************************************************)
TextReply(v) == [kind |-> "text", v |-> v]
NoReply == [kind |-> "none", v |-> <<>>]
RaisedReply == [kind |-> "raised", v |-> <<>>]

(***************************************************************************)
(* A category text is the sequence of its parts between '/' (text.split).  *)
(* A part is a token: "tech", "ml", ... are short runs of safe characters, *)
(* "x45", "x49", "x50", "x60" runs of that many safe characters, "?!" a    *)
(* run of characters outside [\w\-_], "m l" safe characters around a       *)
(* blank, " " a blank, "_" one underscore and "" the empty string.         *)
(***************************************************************************)
MaxThemeLen == 50            \* determine_file_theme: len(theme) > 50 is rejected
MaxCategoryLen == 50         \* determine_knowledge_category: category[:50]

\* len(part)
SegLen(seg) ==
    CASE seg = "" -> 0
      [] seg \in {"_", " "} -> 1
      [] seg \in {"ml", "?!"} -> 2
      [] seg \in {"m l", "m_l"} -> 3
      [] seg = "x20" -> 20
      [] seg = "x45" -> 45
      [] seg = "x49" -> 49
      [] seg = "x50" -> 50
      [] seg = "x60" -> 60
      [] seg = "ml_intro" -> 8
      [] seg = "invalid content" -> 4
      [] OTHER -> 4

\* a run of n safe characters
RunOf(n) ==
    CASE n = 20 -> "x20" [] n = 45 -> "x45" [] n = 49 -> "x49" [] n = 50 -> "x50" [] n = 60 -> "x60"
      [] n = 0 -> ""
      [] OTHER -> "tech"

\* len(text), the '/' between the parts included
RECURSIVE TextLen(_)
TextLen(segs) ==
    IF segs = <<>> THEN 0
    ELSE SegLen(Head(segs)) + (IF Len(segs) > 1 THEN 1 + TextLen(Tail(segs)) ELSE 0)

\* text.strip()
Strip(segs) ==
    [i \in DOMAIN segs |->
        IF segs[i] = " " /\ (i = 1 \/ i = Len(segs)) THEN "" ELSE segs[i]]

\* re.sub(r'[^\w\u4e00-\u9fff\-_/]', '', part)
RemoveUnsafe(seg) ==
    CASE seg \in {"?!", " "} -> ""
      [] seg = "m l" -> "ml"
      [] OTHER -> seg

\* re.sub(r'[^\w\u4e00-\u9fff\-_/]', '_', part), then re.sub(r'_+', '_', part)
Underscored(seg) ==
    CASE seg \in {"?!", " "} -> "_"
      [] seg = "m l" -> "m_l"
      [] OTHER -> seg

\* text.strip('_')
StripUnderscores(segs) ==
    [i \in DOMAIN segs |->
        IF segs[i] = "_" /\ (i = 1 \/ i = Len(segs)) THEN "" ELSE segs[i]]

\* text[:n] of a text of two non-empty parts
Cut(segs, n) ==
    IF SegLen(segs[1]) >= n THEN <<RunOf(n)>>
    ELSE IF SegLen(segs[1]) + 1 + SegLen(segs[2]) <= n THEN segs
    ELSE <<segs[1], RunOf(n - SegLen(segs[1]) - 1)>>

\* theme_mappings: the lookup of synonymous labels
theme_mappings(segs) ==
    IF segs = <<"tech", "ml_intro">> THEN <<"tech", "ml">> ELSE segs

\* a classification that leaves a document unclassified when the call fails
ThemeOrNothing(reply) ==
    IF reply.kind # "text" THEN <<>>
    ELSE LET theme == Strip(reply.v)
             normalized_theme ==
                 [i \in DOMAIN theme_mappings(theme) |->
                     RemoveUnsafe(theme_mappings(theme)[i])]
             parts == normalized_theme
         IN IF TextLen(theme) < 1 \/ TextLen(theme) > MaxThemeLen THEN FallbackTheme
            ELSE IF Len(parts) # 2 \/ parts[1] = "" \/ parts[2] = ""
            THEN FallbackTheme
            ELSE parts

\* determine_file_theme: the reply stripped, mapped, sanitized, split at '/'
\* and validated; invoke raising or returning None ends in the except clause
determine_file_theme(reply) ==
    IF reply.kind # "text" THEN FallbackTheme
    ELSE LET theme == Strip(reply.v)
             normalized_theme ==
                 [i \in DOMAIN theme_mappings(theme) |->
                     RemoveUnsafe(theme_mappings(theme)[i])]
             parts == normalized_theme
         IN IF TextLen(theme) < 1 \/ TextLen(theme) > MaxThemeLen THEN FallbackTheme
            ELSE IF Len(parts) # 2 \/ parts[1] = "" \/ parts[2] = ""
            THEN FallbackTheme
            ELSE parts

\* determine_knowledge_category: the reply stripped, sanitized, validated and
\* only then cut to 50 characters
determine_knowledge_category(reply) ==
    IF reply.kind # "text" THEN FallbackTheme
    ELSE LET category == Strip(reply.v)
             cleaned == StripUnderscores([i \in DOMAIN category |->
                                             Underscored(category[i])])
             parts == cleaned
         IN IF TextLen(category) < 1 \/ category = <<"invalid content">>
            THEN FallbackTheme
            ELSE IF Len(parts) # 2 \/ parts[1] = "" \/ parts[2] = ""
            THEN FallbackTheme
            ELSE IF TextLen(cleaned) > MaxCategoryLen
            THEN Cut(cleaned, MaxCategoryLen)
            ELSE cleaned

\* the parse of "primary/secondary" repeated in reorganize_structure,
\* merge_similar_files and update_knowledge_base
CategoryDir(theme) ==
    IF Len(theme) >= 2 THEN <<theme[1], theme[2]>>
    ELSE <<"other", IF theme = <<>> THEN "unclassified" ELSE theme[1]>>

\* generate_smart_filename: the new name for a document named `original`
\* "short" stands for a reply whose sanitized form has fewer than 2 characters
generate_smart_filename(original, reply) ==
    CASE reply.kind = "text" /\ reply.v # <<"short">> -> reply.v \o Txt
      [] reply.kind = "text" /\ reply.v = <<"short">> ->
            LET name_parts == Underscores(Stem(original))
            IN (IF name_parts # {} THEN SubSeq(Stem(original), 1, Min(name_parts))
                ELSE <<"unnamed">>) \o Txt
      [] OTHER -> Stem(original) \o Txt

\* generate_merged_filename: the name, and the directories that the '/' of
\* the theme adds in front of it when the name is built from the theme
generate_merged_filename(theme, reply, stamp) ==
    CASE reply.kind = "text" /\ reply.v # <<"short">> ->
            [extra |-> <<>>, name |-> reply.v \o Txt]
      [] reply.kind = "text" /\ reply.v = <<"short">> ->
            [extra |-> <<theme[1]>>, name |-> <<theme[2], "guide">> \o Txt]
      [] OTHER ->
            [extra |-> <<theme[1]>>, name |-> <<theme[2], "merged", stamp>> \o Txt]

\* the name tried after `counter` collisions: the code splits the generated
\* name at every '.' and keeps only the first two parts
Candidate(new_filename, counter) ==
    IF counter = 0 THEN new_filename
    ELSE IF Dots(new_filename) # {}
    THEN DotPart0(new_filename) \o <<NumStr(counter), ".">> \o DotPart1(new_filename)
    ELSE Append(new_filename, NumStr(counter))

\* the loop "while final_new_path.exists()" of reorganize_structure
RECURSIVE UniqueName(_, _, _, _)
UniqueName(st, dir, new_filename, counter) ==
    LET candidate == Candidate(new_filename, counter)
    IN IF FileExists(st, [dir |-> dir, name |-> candidate])
       THEN UniqueName(st, dir, new_filename, counter + 1)
       ELSE candidate

(***************************************************************************)
(* identify_problematic_files                                              *)
(***************************************************************************)
RECURSIVE DuplicatesFrom(_, _)
DuplicatesFrom(fi, i) ==
    IF i > Len(fi) THEN <<>>
    ELSE LET first == \A j \in 1..(i - 1) : fi[j].content.prefix # fi[i].content.prefix
             later == SelectSeq(SubSeq(fi, i + 1, Len(fi)),
                                LAMBDA f : f.content.prefix = fi[i].content.prefix)
         IN (IF first THEN [k \in 1..Len(later) |-> later[k].path] ELSE <<>>)
            \o DuplicatesFrom(fi, i + 1)

\* a dedup that marks every member of a group, the first included
DuplicatesAll(fi) ==
    LET grouped == SelectSeq(fi, LAMBDA f :
                       \E j \in 1..Len(fi) : fi[j].path # f.path
                                             /\ fi[j].content.prefix = f.content.prefix)
    IN [k \in 1..Len(grouped) |-> grouped[k].path]

duplicates_of(fi) == DuplicatesFrom(fi, 1)

invalid_files_of(fi) ==
    LET bad == SelectSeq(fi, LAMBDA f : f.content.size < MinValidSize \/ f.content.ph)
    IN [k \in 1..Len(bad) |-> bad[k].path]

(***************************************************************************)
(* should_merge_files and merge_file_contents                              *)
(***************************************************************************)
Substr(a, b) == a = b \/ (a = "ml" /\ b = "ml_deep")

Similar(primary_theme, theme) ==
    theme = primary_theme \/ Substr(primary_theme, theme) \/ Substr(theme, primary_theme)

\* a judgment that merges when half of the sampled tags match
ShouldMergeHalf(n, decision, tags) ==
    IF n < 2 THEN FALSE
    ELSE IF n <= 3
    THEN decision.kind = "text" /\ StripLower(decision.v[1]) = "yes"
    ELSE IF \E i \in DOMAIN tags : tags[i].kind # "text" THEN FALSE
    ELSE LET similar_count ==
                Cardinality({i \in DOMAIN tags : Similar(tags[1].v[1], tags[i].v[1])})
         IN 10 * similar_count >= 5 * Len(tags)

\* `decision` is the reply to the direct judgment, `tags` the replies to the
\* topic-tag prompts of the first five files
should_merge_files(n, decision, tags) ==
    IF n < 2 THEN FALSE
    ELSE IF n <= 3
    THEN decision.kind = "text" /\ StripLower(decision.v[1]) = "yes"
    ELSE IF \E i \in DOMAIN tags : tags[i].kind # "text" THEN FALSE
    ELSE LET similar_count ==
                Cardinality({i \in DOMAIN tags : Similar(tags[1].v[1], tags[i].v[1])})
         IN 10 * similar_count >= 6 * Len(tags)

RECURSIVE ConcatContents(_)
ConcatContents(fc) ==
    IF Len(fc) = 1 THEN fc[1].content
    ELSE LET rest == ConcatContents(Tail(fc))
             first == fc[1].content
         IN [id |-> first.id \o <<"---">> \o rest.id,
             size |-> first.size + SeparatorLen + rest.size,
             ph |-> first.ph \/ rest.ph,
             prefix |-> IF first.size >= HashPrefixLen THEN first.prefix
                        ELSE first.id \o <<"---">> \o rest.id]

\* merge_file_contents: the oracle's synthesis, or the joined contents
\* when invoke raises; None when invoke returned None
merge_file_contents(fc, reply) ==
    CASE reply.kind = "text" -> reply.v
      [] reply.kind = "none" -> EmptyContent      \* f.write(None) leaves the file empty
      [] OTHER -> ConcatContents(fc)

(***************************************************************************)
(* The oracle seen by the curator.  When `det` holds the oracle gives the  *)
(* same reply to the same prompt: `oracle` remembers, per kind of prompt,  *)
(* the reply given to each prompt already asked (a prompt is modelled by   *)
(* the parts of the documents it quotes).                                  *)
(***************************************************************************)
NoOracle ==
    [theme |-> <<>>, name |-> <<>>, decide |-> <<>>, tag |-> <<>>,
     content |-> <<>>, mname |-> <<>>, category |-> <<>>]

Consistent(asked, key, reply) ==
    det => (key \in DOMAIN asked => asked[key] = reply)

RememberTags(asked, sampled, tags) ==
    IF det THEN [k \in DOMAIN asked \cup Range(sampled) |->
                    IF k \in Range(sampled)
                    THEN tags[CHOOSE j \in 1..Len(sampled) : sampled[j] = k]
                    ELSE asked[k]]
    ELSE asked

Remember(asked, key, reply) ==
    IF det THEN [k \in DOMAIN asked \cup {key} |->
                    IF k = key THEN reply ELSE asked[k]]
    ELSE asked

ThemeReplies == {TextReply(<<"tech", "ml">>), RaisedReply}
NameReplies ==
    {TextReply(<<"alpha">>), TextReply(<<"short">>), RaisedReply}
DecisionReplies == {TextReply(<<"yes">>), TextReply(<<"no">>), RaisedReply}
TagReplies == {TextReply(<<"ml">>), TextReply(<<"nlp">>)}
ContentReplies ==
    {[kind |-> "text", v |-> MergedText], [kind |-> "none", v |-> EmptyContent],
     [kind |-> "raised", v |-> EmptyContent]}
NoteReplies ==
    {[kind |-> "text", v |-> NoteText], [kind |-> "none", v |-> EmptyContent],
     [kind |-> "raised", v |-> EmptyContent]}
CategoryReplies ==
    {TextReply(<<"tech", "ml">>), TextReply(<<"tech">>), RaisedReply}

NoPath == [dir |-> <<>>, name |-> <<>>]

\* the replies the oracle can give: always a text unless calls may fail
Answers(replies) ==
    IF faulty THEN replies ELSE {r \in replies : r.kind = "text"}

KBInitFrom(max_docs, runs, contents) ==
    /\ run_limit = runs
    /\ faulty \in BOOLEAN
    /\ \E n \in 0..max_docs :
       \E chosen \in {S \in SUBSET (1..Len(InitPathSeq)) : Cardinality(S) = n} :
       \E c \in [chosen -> contents] :
          /\ store = [path \in {InitPathSeq[i] : i \in chosen} |->
                        LET i == CHOOSE i \in chosen : InitPathSeq[i] = path
                        IN [content |-> c[i], uid |-> i]]
          /\ dirs = UNION {Prefixes(InitPathSeq[i].dir) : i \in chosen}
    /\ det \in BOOLEAN
    /\ kb_pc = "idle"
    /\ files_info = <<>>
    /\ file_themes = <<>>
    /\ merged_files = <<>>
    /\ kb_g = 1
    /\ kb_r = 1
    /\ reorganized_structure = <<>>
    /\ kb_report = [success |-> FALSE, files_analyzed |-> 0, themes_identified |-> 0,
                    duplicates_removed |-> 0, invalid_files_removed |-> 0,
                    files_merged |-> 0, reorganized_files |-> 0]
    /\ kb_runs = 0
    /\ kb_uid = Len(InitPathSeq) + 1
    /\ oracle = NoOracle
    /\ ingests = 0
    /\ direct = FALSE
    /\ run_direct = FALSE
    /\ pre_store = <<>>
    /\ written = {}

KBInit(max_docs, runs) == KBInitFrom(max_docs, runs, InitContents)

KBUnused ==
    /\ run_limit = 0
    /\ faulty = FALSE
    /\ store = <<>>
    /\ dirs = {}
    /\ det = TRUE
    /\ kb_pc = "idle"
    /\ files_info = <<>>
    /\ file_themes = <<>>
    /\ merged_files = <<>>
    /\ kb_g = 1
    /\ kb_r = 1
    /\ reorganized_structure = <<>>
    /\ kb_report = [success |-> FALSE, files_analyzed |-> 0, themes_identified |-> 0,
                    duplicates_removed |-> 0, invalid_files_removed |-> 0,
                    files_merged |-> 0, reorganized_files |-> 0]
    /\ kb_runs = 0
    /\ kb_uid = 1
    /\ oracle = NoOracle
    /\ ingests = 0
    /\ direct = FALSE
    /\ run_direct = FALSE
    /\ pre_store = <<>>
    /\ written = {}

(***************************************************************************)
(* organize_knowledge_base, step by step                                   *)
(***************************************************************************)
\* collect_files_info: the inventory, in the order the directory walk lists it
collect_files_info ==
    /\ kb_pc = "idle"
    /\ kb_runs < run_limit
    /\ \E order \in Orders({path \in DOMAIN store : IsTxt(path.name)}) :
         files_info' = [i \in DOMAIN order |->
                          [path |-> order[i], content |-> store[order[i]].content,
                           uid |-> store[order[i]].uid]]
    /\ file_themes' = <<>>
    /\ merged_files' = <<>>
    /\ reorganized_structure' = <<>>
    /\ kb_g' = 1
    /\ kb_r' = 1
    /\ kb_pc' = "run"
    /\ run_direct' = direct
    /\ pre_store' = store
    /\ written' = {}
    /\ UNCHANGED <<store, dirs, det, run_limit, faulty, kb_report, kb_runs, kb_uid, oracle, ingests,
                   direct, notKB>>

\* analyze_file_themes: one iteration of its loop
analyze_file_themes ==
    /\ kb_pc = "run"
    /\ Len(file_themes) < Len(files_info)
    /\ LET f == files_info[Len(file_themes) + 1]
           key == <<f.path.name, f.content.id>>
       IN \E reply \in Answers(ThemeReplies) :
            /\ Consistent(oracle.theme, key, reply)
            /\ oracle' = [oracle EXCEPT !.theme = Remember(@, key, reply)]
            /\ file_themes' = Append(file_themes,
                                     [path |-> f.path, theme |-> determine_file_theme(reply)])
    /\ UNCHANGED <<store, dirs, det, run_limit, faulty, kb_pc, files_info, merged_files, kb_g, kb_r,
                   reorganized_structure, kb_report, kb_runs, kb_uid, ingests,
                   direct, run_direct, pre_store, written, notKB>>

\* theme_groups of merge_similar_files, in insertion order, groups of one left out
RECURSIVE GroupsFrom(_, _)
GroupsFrom(ft, i) ==
    IF i > Len(ft) THEN <<>>
    ELSE LET first == \A j \in 1..(i - 1) : ft[j].theme # ft[i].theme
             members == SelectSeq(ft, LAMBDA x : x.theme = ft[i].theme)
         IN (IF first /\ Len(members) > 1
             THEN <<[theme |-> ft[i].theme,
                     files |-> [k \in 1..Len(members) |-> members[k].path]]>>
             ELSE <<>>)
            \o GroupsFrom(ft, i + 1)

theme_groups == GroupsFrom(file_themes, 1)

\* the first n elements of s
Take(s, n) == SubSeq(s, 1, IF n < Len(s) THEN n ELSE Len(s))

\* merge_similar_files: one iteration of its loop over the theme groups
merge_similar_files ==
    /\ kb_pc = "run"
    /\ Len(file_themes) = Len(files_info)
    /\ kb_g <= Len(theme_groups)
    /\ kb_g' = kb_g + 1
    /\ LET group == theme_groups[kb_g]
           theme == group.theme
           present == SelectSeq(group.files, LAMBDA path : FileExists(store, path))
           file_contents == [k \in 1..Len(present) |->
                               [path |-> present[k], content |-> store[present[k]].content,
                                name |-> present[k].name]]
           n == Len(file_contents)
           quoted == [k \in 1..n |-> <<file_contents[k].name, file_contents[k].content.prefix>>]
           full == [k \in 1..n |-> <<file_contents[k].name, file_contents[k].content.id>>]
           sampled == Take(quoted, 5)
           judged(decision, tags) ==
               IF n <= 3
               THEN [oracle EXCEPT !.decide = Remember(@, Take(quoted, 3), decision)]
               ELSE [oracle EXCEPT !.tag = RememberTags(@, sampled, tags)]
       IN \E decision \in Answers(DecisionReplies), tags \in [1..Len(sampled) -> TagReplies] :
            /\ IF n <= 3
               THEN /\ Consistent(oracle.decide, Take(quoted, 3), decision)
                    /\ tags = [k \in 1..Len(sampled) |-> TextReply(<<"ml">>)]
               ELSE /\ decision = TextReply(<<"no">>)
                    /\ \A k \in 1..Len(sampled) : Consistent(oracle.tag, sampled[k], tags[k])
                    /\ det => \A j, k \in 1..Len(sampled) :
                                 sampled[j] = sampled[k] => tags[j] = tags[k]
            /\ IF ~should_merge_files(n, decision, tags)
               THEN /\ oracle' = judged(decision, tags)
                    /\ UNCHANGED <<store, dirs, merged_files, kb_uid, written>>
               ELSE \E creply \in Answers(ContentReplies),
                       nreply \in Answers(NameReplies) :
                    LET merged_content == merge_file_contents(file_contents, creply)
                        mkey == <<theme, Take(quoted, 2)>>
                        new_filename == generate_merged_filename(theme, nreply, NumStr(kb_runs + 1))
                        new_file_path == [dir |-> CategoryDir(theme) \o new_filename.extra,
                                          name |-> new_filename.name]
                    IN /\ Consistent(oracle.content, full, creply)
                       /\ Consistent(oracle.mname, mkey, nreply)
                       /\ oracle' =
                            [judged(decision, tags) EXCEPT
                               !.content = Remember(@, full, creply),
                               !.mname = Remember(@, mkey, nreply)]
                       /\ dirs' = ensure_directory_exists(dirs, new_file_path.dir)
                       /\ store' = Put(store, new_file_path,
                                       [content |-> merged_content, uid |-> kb_uid])
                       /\ kb_uid' = kb_uid + 1
                       /\ written' = written \cup {new_file_path}
                       /\ merged_files' =
                            IF creply.kind = "none"
                            THEN merged_files      \* f.write(None) raised: group abandoned
                            ELSE Append(merged_files,
                                        [theme |-> theme,
                                         merged_files |-> [k \in 1..n |-> file_contents[k].path],
                                         new_file |-> new_file_path,
                                         content |-> merged_content,
                                         uid |-> kb_uid])
    /\ UNCHANGED <<det, run_limit, faulty, kb_pc, files_info, file_themes, kb_r, reorganized_structure,
                   kb_report, kb_runs, ingests, direct, run_direct, pre_store, notKB>>

\* the documents step 1 of reorganize_structure does not skip
IsMergedSource(path) ==
    \E k \in 1..Len(merged_files) : path \in Range(merged_files[k].merged_files)

relocation_list ==
    SelectSeq(file_themes, LAMBDA ft :
        /\ ft.path \notin Range(duplicates_of(files_info))
        /\ ft.path \notin Range(invalid_files_of(files_info))
        /\ ~IsMergedSource(ft.path))

\* the entry reorganized_structure[file_path] = {...}
Record(rs, path, rec) ==
    [q \in DOMAIN rs \cup {path} |-> IF q = path THEN rec ELSE rs[q]]

\* reorganize_structure, step 1: one iteration of its loop over file_themes
relocate ==
    /\ kb_pc = "run"
    /\ Len(file_themes) = Len(files_info)
    /\ kb_g > Len(theme_groups)
    /\ kb_r <= Len(relocation_list)
    /\ kb_r' = kb_r + 1
    /\ LET file_path == relocation_list[kb_r].path
           theme == relocation_list[kb_r].theme
           category_dir == CategoryDir(theme)
       IN /\ dirs' = ensure_directory_exists(dirs, category_dir)
          /\ IF ~FileExists(store, file_path)
             THEN UNCHANGED <<store, reorganized_structure, oracle>>
             ELSE \E reply \in Answers(NameReplies),
                     renamed \in (IF faulty THEN BOOLEAN ELSE {TRUE}) :
                  LET key == <<file_path.name, store[file_path].content.prefix>>
                      new_filename == generate_smart_filename(file_path.name, reply)
                      final_new_path ==
                          [dir |-> category_dir,
                           name |-> UniqueName(store, category_dir, new_filename, 0)]
                  IN /\ Consistent(oracle.name, key, reply)
                     /\ oracle' = [oracle EXCEPT !.name = Remember(@, key, reply)]
                     /\ IF renamed
                        THEN /\ store' = Put(Unlink(store, file_path), final_new_path,
                                             store[file_path])
                             /\ reorganized_structure' =
                                  Record(reorganized_structure, file_path,
                                         [status |-> "moved", new_path |-> final_new_path,
                                          reason |-> ""])
                        ELSE /\ store' = store
                             /\ reorganized_structure' =
                                  Record(reorganized_structure, file_path,
                                         [status |-> "error", new_path |-> NoPath,
                                          reason |-> "move failed"])
    /\ UNCHANGED <<det, run_limit, faulty, kb_pc, files_info, file_themes, merged_files, kb_g, kb_report,
                   kb_runs, kb_uid, ingests, direct, run_direct, pre_store, written,
                   notKB>>

\* reorganize_structure, step 2: the sources of one merged group are deleted
RECURSIVE DeleteSources(_, _, _)
DeleteSources(S, paths, new_file) ==
    IF paths = <<>> THEN S
    ELSE LET path == Head(paths)
             T == IF FileExists(S.st, path)
                  THEN [S EXCEPT !.st = Unlink(S.st, path),
                                 !.rs = Record(S.rs, path,
                                               [status |-> "deleted", new_path |-> new_file,
                                                reason |-> "merged"])]
                  ELSE S
         IN DeleteSources(T, Tail(paths), new_file)

RECURSIVE ProcessMerged(_, _)
ProcessMerged(S, mfs) ==
    IF mfs = <<>> THEN S
    ELSE LET merged_info == Head(mfs)
             made == [S EXCEPT !.ds = ensure_directory_exists(@, CategoryDir(merged_info.theme))]
             T == DeleteSources(made, merged_info.merged_files, merged_info.new_file)
             U == [T EXCEPT !.rs = Record(T.rs, merged_info.new_file,
                                          [status |-> "created", new_path |-> merged_info.new_file,
                                           reason |-> "merged"])]
         IN ProcessMerged(U, Tail(mfs))

\* reorganize_structure, step 3: duplicates and invalid files are deleted
RECURSIVE DeleteProblematic(_, _, _)
DeleteProblematic(S, paths, dups) ==
    IF paths = <<>> THEN S
    ELSE LET path == Head(paths)
             T == IF path \in DOMAIN S.rs THEN S
                  ELSE IF FileExists(S.st, path)
                  THEN [S EXCEPT !.st = Unlink(S.st, path),
                                 !.rs = Record(S.rs, path,
                                               [status |-> "deleted", new_path |-> NoPath,
                                                reason |-> IF path \in dups THEN "duplicate"
                                                           ELSE "invalid"])]
                  ELSE S
         IN DeleteProblematic(T, Tail(paths), dups)

\* cleanup_empty_directories: a directory is examined when its parent is listed,
\* before its own entries are; it is removed if it is empty then
cleanup_empty_directories(st, ds) ==
    {d \in ds :
        \/ \E path \in DOMAIN st : path.dir = d
        \/ \E e \in ds : Len(e) = Len(d) + 1 /\ SubSeq(e, 1, Len(d)) = d}

\* steps 2 to 4 of reorganize_structure and the report of organize_knowledge_base
finish_reorganize ==
    /\ kb_pc = "run"
    /\ Len(file_themes) = Len(files_info)
    /\ kb_g > Len(theme_groups)
    /\ kb_r > Len(relocation_list)
    /\ LET duplicates == duplicates_of(files_info)
           invalid_files == invalid_files_of(files_info)
           S0 == [st |-> store, rs |-> reorganized_structure, ds |-> dirs]
           S2 == ProcessMerged(S0, merged_files)
           S3 == DeleteProblematic(S2, duplicates \o invalid_files, Range(duplicates))
       IN /\ store' = S3.st
          /\ reorganized_structure' = S3.rs
          /\ dirs' = cleanup_empty_directories(S3.st, S3.ds)
          /\ kb_report' =
               [success |-> TRUE,
                files_analyzed |-> Len(files_info),
                themes_identified |-> Cardinality({file_themes[k].theme :
                                                     k \in 1..Len(file_themes)}),
                duplicates_removed |-> Len(duplicates),
                invalid_files_removed |-> Len(invalid_files),
                files_merged |-> Len(merged_files),
                reorganized_files |-> Cardinality(DOMAIN S3.rs)]
    /\ kb_pc' = "idle"
    /\ kb_runs' = kb_runs + 1
    /\ direct' = TRUE
    /\ UNCHANGED <<det, run_limit, faulty, files_info, file_themes, merged_files, kb_g, kb_r, kb_uid,
                   oracle, ingests, run_direct, pre_store, written, notKB>>

\* update_knowledge_base (ingestion of one finished turn)
update_knowledge_base ==
    /\ kb_pc = "idle"
    /\ ingests < MaxIngest
    /\ ingests' = ingests + 1
    /\ direct' = FALSE
    /\ \E note \in Answers(NoteReplies), creply \in Answers(CategoryReplies) :
         IF note.kind = "raised"
         THEN UNCHANGED <<store, dirs, kb_uid, written, notes>>
         ELSE LET category == determine_knowledge_category(creply)
                  category_dir == CategoryDir(category)
                  \* Path("temp.txt") is not beneath the knowledge root:
                  \* relative_to raises and the except branch keeps the name
                  filename == generate_smart_filename(<<"temp">> \o Txt, RaisedReply)
                  filepath == [dir |-> category_dir, name |-> filename]
              IN /\ dirs' = ensure_directory_exists(dirs, category_dir)
                 /\ store' = Put(store, filepath, [content |-> note.v, uid |-> kb_uid])
                 /\ kb_uid' = kb_uid + 1
                 /\ written' = written \cup {filepath}
                 /\ notes' = IF note.kind = "text" THEN Append(notes, kb_uid) ELSE notes
    /\ UNCHANGED <<det, run_limit, faulty, kb_pc, files_info, file_themes, merged_files, kb_g, kb_r,
                   reorganized_structure, kb_report, kb_runs, oracle, run_direct,
                   pre_store, ku_out, logVars, ctxVars, thVars, llmVars, pipeVars,
                   catVars, mergeVars>>

(***************************************************************************)
(* knowledge_update.py: ingestion behind a pre-check                       *)
(***************************************************************************)
Queries == {"k1", "zz"}      \* user inputs: "k1" occurs in document K1
Seconds == {"1", "2"}        \* datetime.now() to the second

NoCheck ==
    [calls |-> 0, matched |-> FALSE, failed |-> FALSE, decision |-> TRUE,
     path |-> NoPath, chosen |-> <<>>]

KuIdle ==
    /\ notes = <<>>
    /\ ku_out = NoCheck

\* search_knowledge_base: the documents whose content contains the query;
\* [] when the search itself raises
search_knowledge_base(st, query, searched) ==
    IF ~searched THEN {}
    ELSE {path \in DOMAIN st : IsTxt(path.name) /\ query \in Range(st[path].content.id)}

\* a pre-check that declines the update when its oracle call fails
ShouldUpdateStrict(matched_files, reply) ==
    IF matched_files = {} THEN TRUE
    ELSE reply.kind = "text" /\ reply.v = <<"yes">>

\* should_update_knowledge_base
should_update_knowledge_base(matched_files, reply) ==
    IF matched_files = {} THEN TRUE
    ELSE IF reply.kind # "text" THEN TRUE
    ELSE reply.v = <<"yes">>

KuCategoryReplies ==
    {TextReply(<<"tech">>), TextReply(<<"mgmt">>), TextReply(<<"tech", "?!">>), RaisedReply}

\* the keyword parameters of invoke (llm.py:56)
InvokeKeywords == {"model_name", "conversation_id", "context_history"}

\* lines 222-240: the reply of the oracle made a directory name
\* ("/" is replaced as well: the parts are joined by "_")
CategoryFromReply(reply) ==
    IF reply.kind # "text" THEN "uncategorized"
    ELSE LET category == Strip(reply.v)
             cleaned == StripUnderscores([i \in DOMAIN category |->
                                             Underscored(category[i])])
             name == IF Len(cleaned) = 2 /\ cleaned[2] = "" THEN cleaned[1]
                     ELSE IF Len(cleaned) = 1 THEN cleaned[1] ELSE "tech_ml"
         IN IF TextLen(category) < 1 \/ category = <<"invalid content">>
            THEN "uncategorized"
            ELSE IF SegLen(name) < 1 THEN "uncategorized"
            ELSE IF SegLen(name) > 20 THEN RunOf(20)
            ELSE name

\* determine_knowledge_category of knowledge_update.py: one directory name.
\* Line 222 is invoke(prompt, max_tokens=50): a keyword invoke does not have
\* raises TypeError before the oracle is asked, and lines 241-243 catch it.
ku_determine_knowledge_category(reply) ==
    IF "max_tokens" \notin InvokeKeywords THEN "uncategorized"
    ELSE CategoryFromReply(reply)

\* update_knowledge_base of knowledge_update.py
ku_update_knowledge_base ==
    /\ kb_pc = "idle"
    /\ ingests < MaxIngest
    /\ ingests' = ingests + 1
    /\ \E user_input \in Queries, searched \in (IF faulty THEN BOOLEAN ELSE {TRUE}),
          reply \in Answers(DecisionReplies), note \in Answers(NoteReplies),
          creply \in Answers(KuCategoryReplies), timestamp \in Seconds :
         LET matched_files == search_knowledge_base(store, user_input, searched)
             update == should_update_knowledge_base(matched_files, reply)
             category == ku_determine_knowledge_category(creply)
             filepath == [dir |-> <<category>>,
                          name |-> <<category, timestamp>> \o Txt]
             checked == [calls |-> ku_out.calls + 1,
                         matched |-> matched_files # {},
                         failed |-> ~searched \/ (matched_files # {} /\ reply.kind # "text"),
                         decision |-> update,
                         path |-> NoPath,
                         chosen |-> IF update /\ note.kind # "raised" /\ creply.kind = "text"
                                    THEN creply.v ELSE <<>>]
         IN IF ~update \/ note.kind = "raised"
            THEN /\ ku_out' = checked
                 /\ UNCHANGED <<store, dirs, kb_uid, written, notes, direct>>
            ELSE /\ dirs' = ensure_directory_exists(dirs, <<category>>)
                 /\ store' = Put(store, filepath, [content |-> note.v, uid |-> kb_uid])
                 /\ kb_uid' = kb_uid + 1
                 /\ written' = written \cup {filepath}
                 /\ direct' = FALSE
                 /\ notes' = IF note.kind = "text" THEN Append(notes, kb_uid) ELSE notes
                 /\ ku_out' = [checked EXCEPT !.path =
                                  IF note.kind = "text" THEN filepath ELSE NoPath]
    /\ UNCHANGED <<det, run_limit, faulty, kb_pc, files_info, file_themes, merged_files, kb_g, kb_r,
                   reorganized_structure, kb_report, kb_runs, oracle, run_direct,
                   pre_store, logVars, ctxVars, thVars, llmVars, pipeVars, catVars, mergeVars>>

(***************************************************************************)
(* Specifications                                                          *)
(***************************************************************************)
LLMUnused == LLMIdle /\ nkeys = 1 /\ clients = 1

(***************************************************************************)
(* Single-document categorization applied to replies of every shape        *)
(***************************************************************************)
MaxCatCalls == 3             \* categorization calls per behaviour

\* the first-level categories the prompts of determine_file_theme and
\* determine_knowledge_category tell the oracle to choose from
PrimaryCategories == {"tech", "humanities", "life", "other"}

CategoryTexts ==
    {<<"tech", "ml">>, <<"tech", "ml_intro">>, <<"tech", "m l">>, <<"tech", "?!">>,
     <<"?!", "ml">>, <<"tech">>, <<"tech", "">>, <<"", "ml">>, <<"tech", "ml", "ml">>,
     <<" ">>, <<"invalid content">>, <<"tech", "x45">>, <<"x49", "ml">>,
     <<"x50", "ml">>, <<"x60", "ml">>, <<"tech", "x49">>, <<"cooking", "recipes">>}

CategorizationReplies ==
    {TextReply(v) : v \in CategoryTexts} \cup {NoReply, RaisedReply}

NotCalled == [called |-> FALSE, reply |-> NoReply, result |-> FallbackTheme]

CatIdle ==
    /\ c_calls = 0
    /\ c_theme = NotCalled
    /\ c_category = NotCalled

\* one call of determine_file_theme
CallDetermineFileTheme ==
    /\ c_calls < MaxCatCalls
    /\ c_calls' = c_calls + 1
    /\ \E reply \in CategorizationReplies :
         c_theme' = [called |-> TRUE, reply |-> reply,
                     result |-> determine_file_theme(reply)]
    /\ UNCHANGED <<c_category, notCat>>

\* one call of determine_knowledge_category
CallDetermineKnowledgeCategory ==
    /\ c_calls < MaxCatCalls
    /\ c_calls' = c_calls + 1
    /\ \E reply \in CategorizationReplies :
         c_category' = [called |-> TRUE, reply |-> reply,
                        result |-> determine_knowledge_category(reply)]
    /\ UNCHANGED <<c_theme, notCat>>

(***************************************************************************)
(* should_merge_files applied to groups of every size                      *)
(***************************************************************************)
MaxMergeDocs == 6            \* documents in the group handed to should_merge_files
SampleSize == 5              \* should_merge_files: file_contents[:5]

MergeDecisionReplies ==
    DecisionReplies \cup {TextReply(<<" YES ">>), NoReply}

MergeTagReplies ==
    TagReplies \cup {TextReply(<<"ml_deep">>), NoReply, RaisedReply}

NotJudged ==
    [called |-> FALSE, n |-> 0, decision |-> NoReply, tags |-> <<>>, result |-> FALSE]

MergeIdle == sm_call = NotJudged

\* the arguments of a call of should_merge_files on n documents: the
\* judgment is asked for 2 or 3 documents, one tag per sampled document
\* for 4 or more
MergeInputs ==
    \E n \in 0..MaxMergeDocs, decision \in MergeDecisionReplies :
    \E tags \in [1..Min({n, SampleSize}) -> MergeTagReplies] :
        /\ (n < 2 \/ n > 3) => decision = NoReply
        /\ n <= 3 => \A k \in DOMAIN tags : tags[k] = NoReply
        /\ sm_call = [called |-> FALSE, n |-> n, decision |-> decision, tags |-> tags,
                      result |-> FALSE]

\* the call of should_merge_files
CallShouldMergeFiles ==
    /\ ~sm_call.called
    /\ sm_call' = [sm_call EXCEPT
                      !.called = TRUE,
                      !.result = should_merge_files(sm_call.n, sm_call.decision,
                                                    sm_call.tags)]
    /\ UNCHANGED notMerge

InitMerge == LogIdle /\ ThIdle /\ CatIdle /\ MergeInputs /\ KuIdle /\ CtxInit /\ LLMUnused /\ PipeIdle /\ KBUnused

NextMerge == CallShouldMergeFiles

SpecMerge == InitMerge /\ [][NextMerge]_vars

InitCat == LogIdle /\ ThIdle /\ CatIdle /\ MergeIdle /\ KuIdle /\ CtxInit /\ LLMUnused /\ PipeIdle /\ KBUnused

NextCat == CallDetermineFileTheme \/ CallDetermineKnowledgeCategory

SpecCat == InitCat /\ [][NextCat]_vars

InitCtx == LogIdle /\ ThIdle /\ CatIdle /\ MergeIdle /\ KuIdle /\ CtxInit /\ LLMUnused /\ PipeIdle /\ KBUnused

NextCtx ==
    \E s \in Sessions, t \in Turns :
        add_to_context(s, t.user_input, t.model_response)

SpecCtx == InitCtx /\ [][NextCtx]_vars

InitLog == LogIdle /\ ThIdle /\ CatIdle /\ MergeIdle /\ KuIdle /\ CtxInit /\ LLMUnused /\ PipeIdle /\ KBUnused

NextLog ==
    \/ \E conversation_id \in Sessions, ok \in BOOLEAN :
          save_conversation_log(conversation_id, ok)
    \/ NextDay
    \/ CallLoadRecentConversations

SpecLog == InitLog /\ [][NextLog]_vars

InitCtxConc == LogIdle /\ ThInit /\ CatIdle /\ MergeIdle /\ KuIdle /\ LLMUnused /\ PipeIdle /\ KBUnused

NextCtxConc ==
    \E t \in Threads :
        \/ th_membership(t)
        \/ th_create(t)
        \/ th_append(t)
        \/ th_lookup(t)
        \/ th_sum(t)
        \/ th_test(t)
        \/ th_popleft(t)

SpecCtxConc == InitCtxConc /\ [][NextCtxConc]_vars

InitLLM == LogIdle /\ ThIdle /\ CatIdle /\ MergeIdle /\ KuIdle /\ CtxInit /\ LLMIdle /\ initialize_clients /\ PipeIdle /\ KBUnused

InvokeStep(t) ==
    \/ get_current_client(t)
    \/ create_completion(t)
    \/ rotate_load(t)
    \/ rotate_store(t)
    \/ Return(t)

NextLLMSeq == \E t \in Calls : StartSeq(t) \/ InvokeStep(t)

SpecLLMSeq == InitLLM /\ [][NextLLMSeq]_vars

NextLLMConc == \E t \in Calls : StartConc(t) \/ InvokeStep(t)

SpecLLMConc == InitLLM /\ [][NextLLMConc]_vars

InitPipe == LogIdle /\ ThIdle /\ CatIdle /\ MergeIdle /\ KuIdle /\ CtxInit /\ LLMUnused /\ PipeIdle /\ KBUnused

NextPipe ==
    \/ \E u \in UserInputs, b \in Budgets : process_user_input(u, b)
    \/ AssessClarity
    \/ ClarifyIntent
    \/ LoadRecent
    \/ Summarize
    \/ BuildContext
    \/ AnalyzePreference
    \/ generate_response_stream

SpecPipe == InitPipe /\ [][NextPipe]_vars

\* one curation run over an arbitrary small store, with ingestion before or after
InitKB == LogIdle /\ ThIdle /\ CatIdle /\ MergeIdle /\ KuIdle /\ CtxInit /\ LLMUnused /\ PipeIdle /\ KBInit(MaxDocs, 1)

NextKB ==
    \/ collect_files_info
    \/ analyze_file_themes
    \/ merge_similar_files
    \/ relocate
    \/ finish_reorganize

SpecKB == InitKB /\ [][NextKB]_vars

\* two curation runs in succession, the second on the output of the first
InitKBTwice == LogIdle /\ ThIdle /\ CatIdle /\ MergeIdle /\ KuIdle /\ CtxInit /\ LLMUnused /\ PipeIdle /\ KBInit(TwiceDocs, 2) /\ det /\ ~faulty

NextKBTwice ==
    \/ collect_files_info
    \/ analyze_file_themes
    \/ merge_similar_files
    \/ relocate
    \/ finish_reorganize

SpecKBTwice == InitKBTwice /\ [][NextKBTwice]_vars

\* curation of a store that ingestion writes to
\* one curation run over a store of default documents and valid ones
InitKBDefault ==
    LogIdle /\ ThIdle /\ CatIdle /\ MergeIdle /\ KuIdle /\ CtxInit /\ LLMUnused /\ PipeIdle /\ KBInitFrom(MaxDocs, 1, {DefaultDoc, K1})

SpecKBDefault == InitKBDefault /\ [][NextKB]_vars

\* one curation run, with a deterministic oracle, over a store that may hold
\* three documents, among them long ones with a common beginning
InitKBLong ==
    LogIdle /\ ThIdle /\ CatIdle /\ MergeIdle /\ KuIdle /\ CtxInit /\ LLMUnused /\ PipeIdle /\ KBInitFrom(LongDocs, 1, {K1, L1, L2}) /\ det

SpecKBLong == InitKBLong /\ [][NextKB]_vars

\* ingestions only, through either entry point
InitIngest == LogIdle /\ ThIdle /\ CatIdle /\ MergeIdle /\ KuIdle /\ CtxInit /\ LLMUnused /\ PipeIdle /\ KBInit(IngestDocs, 0)

NextIngest == update_knowledge_base \/ ku_update_knowledge_base

SpecIngest == InitIngest /\ [][NextIngest]_vars

InitKBIngest == LogIdle /\ ThIdle /\ CatIdle /\ MergeIdle /\ KuIdle /\ CtxInit /\ LLMUnused /\ PipeIdle /\ KBInit(IngestDocs, 1)

NextKBIngest ==
    \/ collect_files_info
    \/ analyze_file_themes
    \/ merge_similar_files
    \/ relocate
    \/ finish_reorganize
    \/ (ingests = 0 /\ update_knowledge_base)

SpecKBIngest == InitKBIngest /\ [][NextKBIngest]_vars

(***************************************************************************)
(* C1: after every add_to_context call, each session's buffer either has   *)
(* a total character length within max_context_length or holds exactly     *)
(* one turn.                                                               *)
(***************************************************************************)
C1_BudgetOrSingle ==
    \A s \in DOMAIN context_history :
        \/ total_length(context_history[s]) <= max_context_length
        \/ Len(context_history[s]) = 1

\* a session that was trimmed down to a single turn which alone is over budget
C1_Witness ==
    \E s \in DOMAIN context_history :
        /\ nAdded >= 2
        /\ Len(context_history[s]) = 1
        /\ total_length(context_history[s]) > max_context_length

(***************************************************************************)
(* C2: with one call at a time, a call that ends with the 'all             *)
(* credentials tried' error has attempted every credential of the pool     *)
(* exactly once; no call makes more attempts than the pool has             *)
(* credentials, and all attempts of a call carry the call's prompt.        *)
(***************************************************************************)
TimesTried(t, c) == Cardinality({i \in 1..Len(tried[t]) : tried[t][i].cred = c})

C2_ExhaustedAfterEachOnce ==
    \A t \in Calls :
        /\ Len(tried[t]) <= clients
        /\ \A i \in 1..Len(tried[t]) : tried[t][i].prompt = user_message[t]
        /\ result[t] = "exhausted" =>
              \A c \in 0..(clients - 1) : TimesTried(t, c) = 1

(***************************************************************************)
(* C3: with concurrent calls and a fully initialised pool, a call reports  *)
(* exhaustion only after it has tried every credential: no rotation from   *)
(* a stale index makes a call skip a credential.                           *)
(***************************************************************************)
C3_NoCredentialSkipped ==
    \A t \in Calls :
        (clients = nkeys /\ result[t] = "exhausted") =>
            \A c \in 0..(clients - 1) : TimesTried(t, c) >= 1

(***************************************************************************)
(* C4: process_user_input never lets an exception reach its caller.  A     *)
(* turn ends with the fixed error string and an empty context exactly when *)
(* the preference analysis, the one stage without a handler of its own,    *)
(* raised; a failure in any other stage is absorbed by that stage's        *)
(* fallback and the turn returns its normal result.                        *)
(***************************************************************************)
C4_NeverRaises ==
    /\ p_out.kind # "raised"
    /\ p_pc = "done" =>
          /\ p_out.kind \in {"returned", "clarification", "error"}
          /\ p_out.kind = "error" =>
                p_out.value = ErrorMessage /\ p_out.context = <<>>
          /\ p_out.kind = "returned" => p_out.value = p_input
          /\ (p_out.kind = "error") <=> ("preference" \in p_failed)

\* the preference analysis raised after a context had been built
C4_Witness ==
    /\ p_pc = "done"
    /\ "preference" \in p_failed
    /\ p_context # <<>>
    /\ p_out.kind = "error"

\* C4 as stated: whatever stage fails, the turn returns the error string
\* with an empty context
C4_AnyFailureGivesError ==
    (p_pc = "done" /\ p_failed # {}) =>
        (p_out.kind = "error" /\ p_out.context = <<>>)

(***************************************************************************)
(* Curation claims.  RunFinished: organize_knowledge_base has returned.    *)
(* Survives(uid): the document with this uid is still in the store.        *)
(***************************************************************************)
RunFinished == kb_pc = "idle" /\ kb_runs >= 1

Survives(uid) == \E path \in DOMAIN store : store[path].uid = uid

(***************************************************************************)
(* C5: with an oracle that answers the same prompt the same way (and       *)
(* never fails), a second organize_knowledge_base run made directly on     *)
(* the output of a first run leaves the store as it found it and returns   *)
(* a report without per-path records.                                      *)
(***************************************************************************)
C5_SecondRunChangesNothing ==
    (kb_pc = "idle" /\ kb_runs = 2 /\ run_direct) =>
        /\ DOMAIN reorganized_structure = {}
        /\ kb_report.reorganized_files = 0
        /\ store = pre_store

(***************************************************************************)
(* C6: after a run, for every group the run merged, the source documents   *)
(* are gone and the consolidated file exists at the path recorded as       *)
(* created, holding the synthesized content -- also when that path is the  *)
(* path of one of the sources.                                             *)
(***************************************************************************)
C6_OneConsolidatedFile ==
    RunFinished =>
        \A k \in 1..Len(merged_files) :
            LET m == merged_files[k]
            IN /\ \A src \in Range(m.merged_files) : ~Survives(pre_store[src].uid)
               /\ FileExists(store, m.new_file)
               /\ store[m.new_file] = [content |-> m.content, uid |-> m.uid]
               /\ m.new_file \in DOMAIN reorganized_structure
               /\ reorganized_structure[m.new_file].status = "created"

(***************************************************************************)
(* C7: within each group of inventoried documents with the same content    *)
(* hash, every member but the first in inventory order is marked           *)
(* duplicate and does not survive the run.  The first is never marked      *)
(* duplicate; it survives the run (at one path) unless it is itself        *)
(* invalid, is a source of a merged group, or was overwritten by a         *)
(* consolidated file.                                                      *)
(***************************************************************************)
SameHash(i, j) == files_info[i].content.prefix = files_info[j].content.prefix

MaxCounter == 3

Extension(name) == SubSeq(name, Len(Stem(name)) + 1, Len(name))

SuffixedName(base, k) ==
    IF k = 0 THEN base ELSE Stem(base) \o <<NumStr(k)>> \o Extension(base)

C8_FirstFreeSuffixNeverReplaces ==
    [][(kb_pc = "run" /\ kb_r' = kb_r + 1) =>
          LET file_path == relocation_list[kb_r].path
              dir == CategoryDir(relocation_list[kb_r].theme)
          IN (/\ file_path \in DOMAIN reorganized_structure'
              /\ reorganized_structure'[file_path].status = "moved") =>
                 LET final == reorganized_structure'[file_path].new_path
                 IN /\ ~FileExists(store, final)
                    /\ Cardinality(DOMAIN store') = Cardinality(DOMAIN store)
                    /\ \A other \in DOMAIN store \ {file_path} :
                          FileExists(store', other) /\ store'[other] = store[other]
                    /\ FileExists(store', final) /\ store'[final] = store[file_path]
                    /\ final.dir = dir
                    /\ \E reply \in NameReplies, k \in 0..MaxCounter :
                          LET base == generate_smart_filename(file_path.name, reply)
                          IN /\ final.name = SuffixedName(base, k)
                             /\ \A j \in 0..(k - 1) :
                                   FileExists(store, [dir |-> dir,
                                                      name |-> SuffixedName(base, j)])
      ]_vars

(***************************************************************************)
(* C9: every path the curator writes to or moves a document to lies at     *)
(* most two directory levels beneath the knowledge root.                   *)
(***************************************************************************)
C9_DepthAtMostTwo ==
    \A path \in DOMAIN store \cup written : Len(path.dir) <= 2

(***************************************************************************)
(* C10: after a run every inventoried document has one record that agrees  *)
(* with the store (moved: the document is at the recorded new path and     *)
(* not at the old one; deleted: the document is not at its path; created:  *)
(* a file exists at that path), or has no record and is unchanged at its   *)
(* path.                                                                   *)
(***************************************************************************)
C10_RecordsAgreeWithStore ==
    RunFinished =>
        \A path \in DOMAIN pre_store :
            LET here == FileExists(store, path) /\ store[path].uid = pre_store[path].uid
            IN IF path \in DOMAIN reorganized_structure
               THEN LET rec == reorganized_structure[path]
                    IN CASE rec.status = "moved" ->
                               /\ FileExists(store, rec.new_path)
                               /\ store[rec.new_path] = pre_store[path]
                               /\ ~here
                         [] rec.status = "deleted" -> ~here
                         [] rec.status = "created" -> FileExists(store, path)
                         [] OTHER -> here
               ELSE here /\ store[path] = pre_store[path]


(***************************************************************************)
(* C11: in a merge no source document is deleted unless the consolidated   *)
(* file was written successfully, and when synthesis or the write fails    *)
(* (the oracle returning no text included) the sources all remain, no      *)
(* empty or partially written consolidated file is left in the store and   *)
(* no existing document has been truncated.                                *)
(***************************************************************************)
C11_FailedMergeLeavesNothing ==
    /\ \A path \in DOMAIN store :
          store[path].content = EmptyContent
             => path \in DOMAIN pre_store /\ pre_store[path].content = EmptyContent
    /\ kb_pc = "run" =>
          \A k \in 1..Len(merged_files) : FileExists(store, merged_files[k].new_file)


(***************************************************************************)
(* C12: determine_context_need returns true whenever the loaded history is *)
(* non-empty and the current input equals the user input of the last      *)
(* history entry after trimming whitespace and lowercasing both, whatever  *)
(* the oracle would reply and also when the oracle is unavailable: the     *)
(* turn's context is then the truncated history, never the summary.        *)
(***************************************************************************)
\* the current input repeats the last logged user input
Repeated ==
    /\ p_history # <<>>
    /\ p_history[Len(p_history)].user_input # NoneField
    /\ StripLower(p_input) = StripLower(p_history[Len(p_history)].user_input)

C12_RepeatNeedsContext ==
    (p_pc \in {"preference", "done", "ended"} /\ Repeated)
        => p_context = truncate_conversations(p_history, p_budget)

\* a repeat that differs in case and surrounding blanks, with a budget that
\* lets the repeated turn into the context
C12_Witness ==
    /\ p_pc = "done"
    /\ Repeated
    /\ p_input # p_history[Len(p_history)].user_input
    /\ p_out.kind = "returned"
    /\ p_out.context # <<>>


(***************************************************************************)
(* C13: if the clarity-check oracle call fails (all credentials exhausted  *)
(* or any exception), the input is treated as clear: the pipeline goes on  *)
(* to history loading and the turn never ends with a clarification         *)
(* payload.                                                                *)
(***************************************************************************)
C13_FailedClarityIsClear ==
    "clarity" \in p_failed =>
        /\ p_pc # "clarify"
        /\ p_out.kind # "clarification"
        /\ "clarify" \notin Range(p_ran)
        /\ Len(p_ran) >= 2 => p_ran[2] = "load"

\* a turn whose clarity check failed and which returned its input with a
\* context built from the loaded history
C13_Witness ==
    /\ "clarity" \in p_failed
    /\ p_pc = "done"
    /\ p_history # <<>>
    /\ p_out.kind = "returned"


(***************************************************************************)
(* C14: when the input is judged unclear the turn is terminal:             *)
(* process_user_input returns the clarification payload with an empty      *)
(* context and runs no history load, summarization, context-need decision  *)
(* or truncation, and the caller of the pipeline generates no answer and   *)
(* performs no knowledge ingestion for that turn, whatever well-formed or  *)
(* ill-shaped JSON the oracle returned as the clarification.               *)
(***************************************************************************)
C14_UnclearTurnIsTerminal ==
    p_out.kind = "clarification" =>
        /\ p_out.context = <<>>
        /\ Range(p_ran) \cap {"load", "summarize", "need", "context", "preference",
                              "rewrite", "answer", "ingest"} = {}


(***************************************************************************)
(* C15: with one call at a time, a successful attempt leaves the shared    *)
(* cursor on the credential that succeeded and the next call's first       *)
(* attempt uses that credential: with a pool of 3 and the cursor at 0, a   *)
(* call that fails on 0 and 1 and succeeds on 2 returns normally, the      *)
(* cursor is then 2, and the next call starts from 2.                      *)
(***************************************************************************)
LastTried(t) == tried[t][Len(tried[t])].cred

C15_CursorStaysOnSuccess ==
    /\ last_ok # NoCred => api_key_index = last_ok
    /\ \A t \in Calls :
          /\ (pc[t] = "done" /\ result[t] = "returned") =>
                (last_ok = LastTried(t) /\ api_key_index = LastTried(t))
          /\ (pc[t] = "call" /\ attempt[t] = 0 /\ last_ok # NoCred) =>
                client[t] = last_ok

\* pool of 3: one call failed on 0 and 1 and succeeded on 2; the next call
\* is making its first attempt, on credential 2
C15_Witness ==
    /\ clients = 3
    /\ \E t, u \in Calls :
          /\ t # u
          /\ pc[t] = "idle" /\ result[t] = "returned"
          /\ [i \in 1..Len(tried[t]) |-> tried[t][i].cred] = <<0, 1, 2>>
          /\ pc[u] = "call" /\ attempt[u] = 0
          /\ client[u] = 2
          /\ last_ok = 2


(***************************************************************************)
(* C16: for a store holding two documents whose content is exactly the     *)
(* default document text, a reorganization run tags both invalid, removes  *)
(* both from the store, leaves no document derived from them, and reports  *)
(* invalid_files_removed = 2, whatever the oracle replies to               *)
(* classification and merge questions.                                     *)
(***************************************************************************)
TwoDefaultDocs ==
    /\ Cardinality(DOMAIN pre_store) = 2
    /\ \A path \in DOMAIN pre_store : pre_store[path].content = DefaultDoc

C16_DefaultDocsLeaveNothing ==
    (RunFinished /\ TwoDefaultDocs) =>
        /\ Len(invalid_files_of(files_info)) = 2
        /\ kb_report.invalid_files_removed = 2
        /\ \A path \in DOMAIN pre_store : ~Survives(pre_store[path].uid)
        /\ store = <<>>


(***************************************************************************)
(* C17: if the oracle fails for the calls of any subset of documents       *)
(* during a reorganization run, the run still completes and returns a      *)
(* success report: each affected document is classified as the fallback    *)
(* category or kept as is, a failed merge judgment means no merge, a       *)
(* failed filename generation falls back to a cleaned original name, and   *)
(* every other document is processed according to the oracle's replies    *)
(* for it.  (Stated for an oracle that remembers its replies, so that the  *)
(* reply to each prompt can be read back.)                                 *)
(***************************************************************************)
\* the prompt keys of a document of the inventory
ThemeKey(f) == <<f.path.name, f.content.id>>
NameKey(f) == <<f.path.name, f.content.prefix>>

\* the names the unique-name loop can give to a generated name
NamesFrom(new_filename) == {Candidate(new_filename, c) : c \in 0..MaxDocs}

SafePart(seg) == seg \notin {"", " ", "?!", "m l"}

TwoSafeParts(category) ==
    Len(category) = 2 /\ SafePart(category[1]) /\ SafePart(category[2])

\* the reply, sanitized as function `sanitize` does, is unusable
Unusable(reply, sanitized) ==
    \/ reply.kind # "text"
    \/ TextLen(sanitized) = 0
    \/ Len(sanitized) < 2
    \/ \E i \in DOMAIN sanitized : sanitized[i] = ""

C18_AlwaysTwoSafeParts ==
    /\ c_theme.called =>
          /\ TwoSafeParts(c_theme.result)
          /\ Unusable(c_theme.reply,
                      [i \in DOMAIN c_theme.reply.v |-> RemoveUnsafe(c_theme.reply.v[i])])
                => c_theme.result = FallbackTheme
    /\ c_category.called =>
          /\ TwoSafeParts(c_category.result)
          /\ Unusable(c_category.reply,
                      StripUnderscores([i \in DOMAIN c_category.reply.v |->
                                           Underscored(c_category.reply.v[i])]))
                => c_category.result = FallbackTheme


(***************************************************************************)
(* C19: each successful ingestion writes its note as a new file: ingestion *)
(* never overwrites an existing knowledge document, so k successful        *)
(* ingestions that resolve to the same category leave k distinct note      *)
(* files in that category, also when filename generation by the oracle     *)
(* fails.                                                                  *)
(***************************************************************************)
C19_EveryNoteKeepsItsFile ==
    /\ \A i \in DOMAIN notes : Survives(notes[i])
    /\ Cardinality({path \in DOMAIN store : store[path].uid \in Range(notes)})
          = Len(notes)


(***************************************************************************)
(* C20: the ingestion pre-check answers 'update' when no existing document *)
(* matches the user input and whenever its search or oracle call fails;    *)
(* when it answers 'no', update_knowledge_base returns None and creates no *)
(* directory and writes no file.                                           *)
(***************************************************************************)
C20_PrecheckFailsOpen ==
    [][ku_out'.calls # ku_out.calls =>
          /\ (~ku_out'.matched \/ ku_out'.failed) => ku_out'.decision
          /\ ~ku_out'.decision =>
                /\ ku_out'.path = NoPath
                /\ store' = store
                /\ dirs' = dirs
                /\ notes' = notes]_vars

\* a pre-check that answered 'no' on a store that already holds a note, and
\* the store still holds nothing but that note and the initial documents
C20_Witness ==
    /\ ku_out.calls >= 1
    /\ ku_out.matched /\ ~ku_out.failed /\ ~ku_out.decision
    /\ ku_out.path = NoPath
    /\ Len(notes) = 1
    /\ ingests = 2

(***************************************************************************)
(* C21: when two add_to_context calls run concurrently on a session that   *)
(* already holds turns and both return, the buffer they leave is the       *)
(* buffer that one of the two serial orders of the calls leaves (so it is  *)
(* non-empty, holds the turn appended last, and lost no turn while the     *)
(* rest was within the budget).                                            *)
(***************************************************************************)
SerialResult(base, first, second) ==
    trim_context(Append(trim_context(Append(base, first)), second))

C21_ConcurrentAddsSerialize ==
    (th_base # <<>> /\ \A t \in Threads : th[t].pc = "done") =>
        get_context(Shared) \in {SerialResult(th_base, th[1].turn, th[2].turn),
                                 SerialResult(th_base, th[2].turn, th[1].turn)}

(***************************************************************************)
(* C22: after every add_to_context call each session's buffer is the       *)
(* longest suffix of all the turns ever added to the session whose total   *)
(* length is within max_context_length, or the newest turn alone when      *)
(* that turn exceeds the budget by itself.                                 *)
(***************************************************************************)
Suffix(all, k) == SubSeq(all, Len(all) - k + 1, Len(all))

LongestSuffixWithin(all) ==
    LET fitting == {k \in 1..Len(all) :
                      total_length(Suffix(all, k)) <= max_context_length}
    IN IF fitting = {} THEN Suffix(all, 1)
       ELSE Suffix(all, CHOOSE k \in fitting : \A j \in fitting : j <= k)

C22_BufferIsLongestSuffix ==
    /\ DOMAIN context_history = DOMAIN ever_added
    /\ \A s \in DOMAIN context_history :
          context_history[s] = LongestSuffixWithin(ever_added[s])

\* a session from which old turns were evicted and more than the newest is kept
C22_Witness ==
    \E s \in DOMAIN context_history :
        /\ Len(ever_added[s]) >= 3
        /\ Len(context_history[s]) = 2
        /\ total_length(context_history[s]) = max_context_length
        /\ TurnLength(ever_added[s][1]) > 0

(***************************************************************************)
(* C23: a load that could read every log file returns at most max_entries  *)
(* turns, all of the requested session, oldest first, and they are the     *)
(* newest turns logged for that session; so the turn saved last for the    *)
(* session is among them.                                                  *)
(***************************************************************************)
RECURSIVE RowsOf(_, _, _)
RowsOf(files, d, conversation_id) ==
    IF d > MaxDays THEN <<>>
    ELSE (IF d \in DOMAIN files
          THEN SelectSeq(files[d], LAMBDA r : r.conversation_id = conversation_id)
          ELSE <<>>) \o RowsOf(files, d + 1, conversation_id)

Newest(rows, n) ==
    SubSeq(rows, IF Len(rows) > n THEN Len(rows) - n + 1 ELSE 1, Len(rows))

C23_LoadReturnsNewest ==
    (loaded # NotLoaded /\ loaded.all_read) =>
        loaded.conversations =
            Newest(RowsOf(log_files, 1, loaded.conversation_id), loaded.max_entries)

(***************************************************************************)
(* C24: when update_knowledge_base of knowledge_update.py writes a note    *)
(* and returns its path, the note lies in the directory named by the       *)
(* category the oracle gives for the turn (here: a reply that is already   *)
(* a valid directory name), and that directory exists.                     *)
(***************************************************************************)
C24_FiledUnderChosenCategory ==
    (ku_out.path # NoPath /\ ku_out.chosen \in {<<"tech">>, <<"mgmt">>}) =>
        /\ ku_out.path.dir = ku_out.chosen
        /\ ku_out.path.dir \in dirs
        /\ FileExists(store, ku_out.path)

(***************************************************************************)
(* C25: with one call at a time, every failed attempt of invoke moves the  *)
(* cursor one position on, circularly, the last failed attempt of a call   *)
(* that ends in exhaustion included; every attempt carries the call's      *)
(* prompt.                                                                 *)
(***************************************************************************)
CursorAfter(t, failures) == (tried[t][1].cred + failures) % clients

C25_EveryFailureAdvances ==
    \A t \in Calls :
        (clients >= 1 /\ tried[t] # <<>>) =>
            /\ \A i \in 1..Len(tried[t]) : tried[t][i].prompt = user_message[t]
            /\ pc[t] = "get" => api_key_index = CursorAfter(t, Len(tried[t]))
            /\ (pc[t] = "done" /\ result[t] = "exhausted") =>
                  api_key_index = CursorAfter(t, Len(tried[t]))

(***************************************************************************)
(* C26: a failure inside the preference analysis does not change what      *)
(* the turn returns: process_user_input still returns the input and the    *)
(* context built by the earlier stages.                                    *)
(***************************************************************************)
C26_PreferenceFailureIsIgnored ==
    (p_pc \in {"done", "ended"} /\ "preference" \in p_failed) =>
        /\ p_out.kind = "returned"
        /\ p_out.value = p_input
        /\ p_out.context = p_context

(***************************************************************************)
(* C27: in the context-need decision a non-empty history gives true        *)
(* without an oracle call; an empty history gives one oracle call, and the *)
(* result is true exactly when the reply, trimmed and lowercased, is       *)
(* "yes", or when the call failed or returned no text.                     *)
(***************************************************************************)
Ran(stage) == \E i \in 1..Len(p_ran) : p_ran[i] = stage

C27_ContextNeedDecision ==
    Ran("need") =>
        /\ p_history # <<>> => (p_need.need /\ p_need.calls = 0)
        /\ p_history = <<>> =>
              /\ p_need.calls = 1
              /\ p_need.need <=> p_need.reply \in {"yes", " YES ", NoneReply, Raised}
        /\ p_context = IF p_need.need
                       THEN truncate_conversations(p_history, p_budget)
                       ELSE <<[role |-> "system", content |-> p_summary]>>

\* a new conversation whose oracle call failed: the full context is taken
C27_Witness ==
    /\ p_pc = "done"
    /\ p_history = <<>>
    /\ p_need.calls = 1
    /\ p_need.reply = Raised
    /\ p_need.need
    /\ p_out.kind = "returned"

(***************************************************************************)
(* C28: the context truncate_conversations builds is the messages of the   *)
(* longest newest suffix of the history whose rendered length is within    *)
(* the budget, oldest first, each turn as a user message followed by an    *)
(* assistant message; it is empty when the newest turn alone does not fit. *)
(***************************************************************************)
RECURSIVE RenderedLen(_)
RenderedLen(turns) ==
    IF turns = <<>> THEN 0 ELSE ConvTextLen(Head(turns)) + RenderedLen(Tail(turns))

NewestTurns(k) == SubSeq(p_history, Len(p_history) - k + 1, Len(p_history))

IsMessagesOf(context, turns) ==
    /\ Len(context) = 2 * Len(turns)
    /\ \A j \in 1..Len(turns) :
          /\ context[2 * j - 1] = [role |-> "user", content |-> turns[j].user_input]
          /\ context[2 * j] = [role |-> "assistant",
                               content |-> turns[j].model_response]

C28_TruncationIsLongestSuffix ==
    (Ran("context") /\ p_need.need) =>
        \E k \in 0..Len(p_history) :
            /\ IsMessagesOf(p_context, NewestTurns(k))
            /\ RenderedLen(NewestTurns(k)) <= p_budget
            /\ k < Len(p_history) => RenderedLen(NewestTurns(k + 1)) > p_budget

\* two logged turns of which only the newer fits the budget
C28_Witness ==
    /\ p_pc = "done"
    /\ p_need.need
    /\ Len(p_history) = 2
    /\ Len(p_context) = 2
    /\ p_context[1].content = p_history[2].user_input
    /\ ConvTextLen(p_history[1]) <= p_budget

(***************************************************************************)
(* C29: in a turn judged clear the rewrite of the input runs after the     *)
(* clarity check and before the history is loaded, summarized and made     *)
(* into a context.                                                         *)
(***************************************************************************)
C29_RewriteBeforeHistory ==
    /\ \A i, j \in 1..Len(p_ran) :
          (p_ran[i] = "rewrite" /\ p_ran[j] \in {"load", "summarize", "need", "context"})
              => i < j
    /\ Ran("load") /\ p_pc = "ended" /\ p_out.kind = "returned" => Ran("rewrite")

(***************************************************************************)
(* C30: rewrite_user_input never raises, and whenever the oracle call      *)
(* fails, returns no text, returns text that is not JSON, or returns JSON  *)
(* that is not an object with a rewritten_input field, the result has      *)
(* rewritten_input equal to the original input and no changes.             *)
(***************************************************************************)
C30_RewriteFallsBack ==
    Ran("rewrite") =>
        /\ p_rewrite.kind = "returned"
        /\ p_rewrite.reply \in {Raised, NoneReply, "not json", "[1]", "{title}"} =>
              /\ p_rewrite.rewritten_input = p_input
              /\ p_rewrite.changes = <<>>

\* the oracle call of the rewrite raised and the turn went on to its answer
C30_Witness ==
    /\ p_pc = "ended"
    /\ Ran("answer")
    /\ p_rewrite.reply = Raised
    /\ p_rewrite.kind = "returned"
    /\ p_rewrite.rewritten_input = p_input

(***************************************************************************)
(* C31: clarify_user_intent always returns a clarification structure (a    *)
(* list of candidate intents and a need_more_info entry); when the oracle  *)
(* call failed or the reply is not such a structure, it is the fixed       *)
(* fallback with two candidate intents.                                    *)
(***************************************************************************)
C31_ClarificationIsStructure ==
    Ran("clarify") =>
        /\ p_out.kind = "clarification"
        /\ p_out.value \in {"{intents, need_more_info}", FallbackClarification}
        /\ "clarify" \in p_failed => p_out.value = FallbackClarification

(***************************************************************************)
(* C32: a document marked duplicate or invalid is never a source of a      *)
(* merge, and where the run deleted it, its record gives the reason        *)
(* duplicate or invalid, never merged.                                     *)
(***************************************************************************)
Problematic ==
    Range(duplicates_of(files_info)) \cup Range(invalid_files_of(files_info))

C32_ProblematicNeverMerged ==
    /\ \A k \in 1..Len(merged_files) :
          Range(merged_files[k].merged_files) \cap Problematic = {}
    /\ \A path \in DOMAIN reorganized_structure \cap Problematic :
          reorganized_structure[path].status = "deleted" =>
              reorganized_structure[path].reason \in {"duplicate", "invalid"}

(***************************************************************************)
(* C33: a consolidated file never replaces a document that is not one of   *)
(* the sources of its merge: a document that stood at the path the merge   *)
(* wrote to, and that the run had no other cause to delete, is still in    *)
(* the store with its content after the run.                               *)
(***************************************************************************)
Overwritten(k, path) ==
    /\ merged_files[k].new_file = path
    /\ path \notin Range(merged_files[k].merged_files)
    /\ path \notin Problematic
    /\ ~IsMergedSource(path)

C33_MergeWriteKeepsOthers ==
    RunFinished =>
        \A k \in 1..Len(merged_files) : \A path \in DOMAIN pre_store :
            Overwritten(k, path) =>
                \E q \in DOMAIN store : store[q] = pre_store[path]

(***************************************************************************)
(* C34: a document is marked duplicate, and deleted by the run for that    *)
(* reason, only if its whole content is the                                *)
(* content of the document retained for its group, the first of the        *)
(* inventory with that content; documents that agree on their first        *)
(* HashPrefixLen characters and differ later are not marked.               *)
(***************************************************************************)
C34_DuplicateMeansIdentical ==
    RunFinished =>
        \A i \in 1..Len(files_info) :
            (/\ files_info[i].path \in Range(duplicates_of(files_info))
             /\ files_info[i].path \in DOMAIN reorganized_structure
             /\ reorganized_structure[files_info[i].path].status = "deleted"
             /\ reorganized_structure[files_info[i].path].reason = "duplicate"
             /\ ~Survives(files_info[i].uid)) =>
                \E j \in 1..(i - 1) :
                    /\ files_info[j].path \notin Range(duplicates_of(files_info))
                    /\ files_info[j].content.id = files_info[i].content.id

(***************************************************************************)
(* C35: the counts of the report agree with the per-path records of the    *)
(* run: duplicates removed is the number of documents deleted for reason   *)
(* duplicate, invalid removed the number deleted for reason invalid,       *)
(* merged the number of documents consumed by merges, relocated the        *)
(* number of documents moved, analyzed the number of inventoried ones.     *)
(***************************************************************************)
Recorded(status, reason) ==
    Cardinality({path \in DOMAIN reorganized_structure :
                    /\ reorganized_structure[path].status = status
                    /\ reorganized_structure[path].reason = reason})

C35_ReportCountsAgree ==
    RunFinished =>
        /\ kb_report.files_analyzed = Len(files_info)
        /\ kb_report.duplicates_removed = Recorded("deleted", "duplicate")
        /\ kb_report.invalid_files_removed = Recorded("deleted", "invalid")
        /\ kb_report.files_merged = Recorded("deleted", "merged")
        /\ kb_report.reorganized_files = Recorded("moved", "")

(***************************************************************************)
(* C36: after a run no empty directory remains beneath the knowledge       *)
(* root: every directory holds a file or a subdirectory.                   *)
(***************************************************************************)
IsEmptyDir(d) ==
    /\ \A path \in DOMAIN store : path.dir # d
    /\ \A e \in dirs : ~(Len(e) = Len(d) + 1 /\ SubSeq(e, 1, Len(d)) = d)

C36_NoEmptyDirectoryRemains ==
    RunFinished => \A d \in dirs : ~IsEmptyDir(d)

(***************************************************************************)
(* C37: the primary part of every category that single-document           *)
(* categorization returns is one of the four fixed primary categories,     *)
(* whatever the oracle replies.                                            *)
(***************************************************************************)
C37_PrimaryFromClosedSet ==
    /\ c_theme.called => c_theme.result[1] \in PrimaryCategories
    /\ c_category.called => c_category.result[1] \in PrimaryCategories

(***************************************************************************)
(* C38: an oracle reply that the lookup table lists as a synonym of a      *)
(* secondary label is normalized to that label before a document is        *)
(* filed, in batch classification and in ingestion categorization alike,   *)
(* so the synonym and the label give the same category.                    *)
(***************************************************************************)
ListedSynonym(reply) ==
    reply.kind = "text" /\ theme_mappings(reply.v) # reply.v

C38_SynonymsNormalized ==
    /\ (c_theme.called /\ ListedSynonym(c_theme.reply)) =>
            c_theme.result = theme_mappings(c_theme.reply.v)
    /\ (c_category.called /\ ListedSynonym(c_category.reply)) =>
            c_category.result = theme_mappings(c_category.reply.v)

(***************************************************************************)
(* C39: should_merge_files returns false for fewer than 2 documents; for   *)
(* 2 or 3 documents it returns true exactly when the oracle's trimmed,     *)
(* lowercased reply is "yes"; for 4 or more it returns true exactly when   *)
(* at least 60% of the tags of the sampled documents equal the first       *)
(* document's tag, contain it or are contained in it; when an oracle call  *)
(* fails it returns false.                                                 *)
(***************************************************************************)
TagMatches(first, tag) ==
    tag = first \/ Substr(first, tag) \/ Substr(tag, first)

C39_ShouldMergeDecision ==
    sm_call.called =>
        LET n == sm_call.n
            decision == sm_call.decision
            tags == sm_call.tags
        IN sm_call.result <=>
             /\ n >= 2
             /\ n <= 3 => (decision.kind = "text" /\ StripLower(decision.v[1]) = "yes")
             /\ n >= 4 =>
                   /\ \A i \in DOMAIN tags : tags[i].kind = "text"
                   /\ 100 * Cardinality({i \in DOMAIN tags :
                                            TagMatches(tags[1].v[1], tags[i].v[1])})
                         >= 60 * Len(tags)

\* four documents merged on three matching tags, one of them by containment
C39_Witness ==
    /\ sm_call.called
    /\ sm_call.n = 4
    /\ sm_call.result
    /\ \E i, j \in DOMAIN sm_call.tags :
          /\ sm_call.tags[i] = TextReply(<<"nlp">>)
          /\ sm_call.tags[j] = TextReply(<<"ml_deep">>)

====
